---- MODULE Spec2Model ----
(***************************************************************************)
(* A model of the bolted-joint Junction (src/junctions/junction.py) and of *)
(* the preload computation of NASA5020Analysis (src/analysis/nasa5020.py). *)
(*                                                                         *)
(* Lengths are pint Quantities in the source.  Here a length is an integer *)
(* number of ticks, one tick being 1/2032 inch = 1/80 mm, so that inch and *)
(* millimetre values compare and add the way pint compares and adds them   *)
(* after conversion to a common unit.                                      *)
(***************************************************************************)
EXTENDS Integers, Sequences, FiniteSets, TLC

VARIABLES
    constructed,         \* TRUE once Junction.__init__ has returned normally
    fastener,            \* Junction._fastener
    threaded_member,     \* Junction._threaded_member
    clamped_components,  \* Junction._clamped_components (ordered list)
    last,                \* the last call on the Junction and how it ended
    analysis,            \* the NASA5020Analysis object and its last result
    environment,         \* the last Environment construction and its outcome
    margins,             \* the last call of a margin equation and its result
    mat                  \* a Material and the last assignment to its strengths

jvars == <<constructed, fastener, threaded_member, clamped_components, last>>
vars == <<constructed, fastener, threaded_member, clamped_components, last, analysis,
          environment, margins, mat>>

----------------------------------------------------------------------------
(* Bounds of the model *)

\* the longest clamped stack the model builds
MaxStack == 3

----------------------------------------------------------------------------
(* Units: n sixteenths of an inch, n millimetres, expressed in ticks *)

In16(n) == n * 127
Mm(n) == n * 80

----------------------------------------------------------------------------
(* Thread specification strings, as sequences of tokens *)

UNC14 == <<"1", "/", "4", "-", "20", " ", "UNC">>
UNF14 == <<"1", "/", "4", "-", "28", " ", "UNF">>
M6 == <<"M", "6", "x", "1.0">>

\* float(token) for the numerals that occur in the diameters
NumVal(tok) ==
    CASE tok = "1" -> 1
      [] tok = "2" -> 2
      [] tok = "3" -> 3
      [] tok = "4" -> 4
      [] tok = "6" -> 6
      [] tok = "8" -> 8
      [] OTHER -> 0

\* c in s
Contains(s, c) == \E i \in 1..Len(s) : s[i] = c

\* s.split(c)[0]: the tokens before the first c (all of s when c is absent)
SplitHead(s, c) ==
    IF Contains(s, c)
    THEN SubSeq(s, 1, (CHOOSE i \in 1..Len(s) :
                          s[i] = c /\ \A j \in 1..(i - 1) : s[j] # c) - 1)
    ELSE s

\* s.split(c)[1] when s holds exactly one c
SplitTail(s, c) ==
    SubSeq(s, (CHOOSE i \in 1..Len(s) : s[i] = c) + 1, Len(s))

\* s.strip(c): leading and trailing c removed
RECURSIVE Strip(_, _)
Strip(s, c) ==
    IF s = <<>> THEN s
    ELSE IF Head(s) = c THEN Strip(Tail(s), c)
    ELSE IF s[Len(s)] = c THEN Strip(SubSeq(s, 1, Len(s) - 1), c)
    ELSE s

----------------------------------------------------------------------------
(* Materials and components *)

\* exact fractions <<n, d>> with d > 0 stand for the source's floats
RECURSIVE GCD(_, _)
GCD(a, b) == IF b = 0 THEN a ELSE GCD(b, a % b)

Abs(x) == IF x < 0 THEN 0 - x ELSE x

Norm(q) ==
    LET g == GCD(Abs(q[1]), q[2])
    IN  IF q[1] = 0 THEN <<0, 1>> ELSE <<q[1] \div g, q[2] \div g>>

R(n, d) == Norm(<<n, d>>)

RatAdd(a, b) ==
    LET g == GCD(a[2], b[2])
    IN  Norm(<<a[1] * (b[2] \div g) + b[1] * (a[2] \div g), (a[2] \div g) * b[2]>>)

RatNeg(a) == <<0 - a[1], a[2]>>

RatSub(a, b) == RatAdd(a, RatNeg(b))

RatMul(a, b) ==
    LET g1 == GCD(Abs(a[1]), b[2])
        g2 == GCD(Abs(b[1]), a[2])
    IN  IF a[1] = 0 \/ b[1] = 0 THEN <<0, 1>>
        ELSE <<(a[1] \div g1) * (b[1] \div g2), (a[2] \div g2) * (b[2] \div g1)>>

\* 1 / a, for a # 0
RatInv(a) == IF a[1] < 0 THEN <<0 - a[2], 0 - a[1]>> ELSE <<a[2], a[1]>>

RatDiv(a, b) == RatMul(a, RatInv(b))

RatLeq(a, b) ==
    LET g == GCD(a[2], b[2])
    IN  a[1] * (b[2] \div g) <= b[1] * (a[2] \div g)

RatLt(a, b) == ~RatLeq(b, a)

RatAbs(a) == <<Abs(a[1]), a[2]>>

RatMax(a, b) == IF RatLeq(a, b) THEN b ELSE a

RatMin(a, b) == IF RatLeq(a, b) THEN a ELSE b

\* thermal_expansion in 1/K, elastic_modulus in N/mm^2
Steel == [name |-> "Steel", has_yield |-> TRUE,
          thermal_expansion |-> R(13, 1000000), elastic_modulus |-> R(200000, 1)]
Aluminium == [name |-> "Aluminium", has_yield |-> TRUE,
              thermal_expansion |-> R(23, 1000000), elastic_modulus |-> R(69000, 1)]
Bare == [name |-> "Bare", has_yield |-> FALSE,
         thermal_expansion |-> R(13, 1000000), elastic_modulus |-> R(200000, 1)]

NoneObj == [cls |-> "NoneType"]

\* an object that is neither a Fastener, a threaded member nor a component
Other == [cls |-> "str"]

Fasteners ==
    { [cls |-> "Fastener", thread_spec |-> s, length |-> l,
       threaded_length |-> t, head_diameter |-> In16(6),
       head_height |-> In16(3), is_flat |-> b, material |-> Steel] :
         s \in {UNC14}, l \in {In16(8), In16(16)}, t \in {In16(1), In16(4)},
         b \in BOOLEAN }
    \cup
    { [cls |-> "Fastener", thread_spec |-> s, length |-> In16(16),
       threaded_length |-> In16(4), head_diameter |-> In16(6),
       head_height |-> In16(3), is_flat |-> FALSE, material |-> Steel] :
         s \in {UNF14, M6} }

\* Nut.__init__: threaded_length is the height
Nuts ==
    { [cls |-> "Nut", thread_spec |-> s, threaded_length |-> h,
       material |-> Steel] :
         s \in {UNC14, UNF14, M6}, h \in {In16(4)} }
    \cup
    { [cls |-> "Nut", thread_spec |-> UNC14, threaded_length |-> In16(1),
       material |-> Steel],
      [cls |-> "Nut", thread_spec |-> UNC14, threaded_length |-> In16(4),
       material |-> Bare] }

ThreadedPlates ==
    { [cls |-> "ThreadedPlate", thread_spec |-> s, thickness |-> Mm(6),
       threaded_length |-> t, material |-> Steel] :
         s \in {UNC14}, t \in {Mm(1), Mm(5)} }

Plates ==
    { [cls |-> "PlateComponent", thickness |-> In16(2), material |-> Aluminium, tag |-> 1],
      [cls |-> "PlateComponent", thickness |-> In16(4), material |-> Steel, tag |-> 2] }

ThreadedMembers == Nuts \cup ThreadedPlates

\* a ThreadedPlate is a PlateComponent too and can sit in the clamped stack
Components == Plates \cup { p \in ThreadedPlates : p.threaded_length = Mm(5) }

\* isinstance(x, Fastener)
IsFastener(x) == x.cls = "Fastener"

\* isinstance(x, (Nut, ThreadedPlate))
IsThreadedMember(x) == x.cls \in {"Nut", "ThreadedPlate"}

\* isinstance(x, ClampedComponent)
IsClampedComponent(x) == x.cls \in {"PlateComponent", "Washer", "ThreadedPlate"}

\* Nut.height
Height(m) == m.threaded_length

RECURSIVE SumThickness(_)
SumThickness(s) ==
    IF s = <<>> THEN 0 ELSE Head(s).thickness + SumThickness(Tail(s))

Min(a, b) == IF a <= b THEN a ELSE b

\* parse_thread_specification(spec).nominal_diameter in mm, which
\* ThreadedComponent.__init__ stores as _nominal_diameter
ParsedNominalDiameter(spec) ==
    IF spec[1] = "M"
    THEN R(NumVal(spec[2]), 1)
    ELSE LET diameter_str == SplitHead(spec, "-")
         IN  IF Contains(diameter_str, "/")
             THEN R(NumVal(diameter_str[1]) * 127, NumVal(diameter_str[3]) * 5)
             ELSE R(NumVal(diameter_str[1]) * 127, 5)

----------------------------------------------------------------------------
(* Junction: derived quantities and the assembly validation *)

\* the nominal diameter _validate_assembly parses out of the fastener's
\* thread specification, as a fraction <<n, d>> of ticks (n / d)
NominalDiameter(spec) ==
    IF Contains(spec, "-")
    THEN LET fraction_str == SplitHead(spec, "-")
         IN  IF Contains(fraction_str, "/")
             THEN LET num == NumVal(SplitHead(fraction_str, "/")[1])
                      denom == NumVal(SplitTail(fraction_str, "/")[1])
                  IN  <<num * In16(16), denom>>
             ELSE <<NumVal(fraction_str[1]) * In16(16), 1>>
    ELSE <<Mm(NumVal(SplitHead(Strip(spec, "M"), "x")[1])), 1>>

\* variant: the longer of the two threaded lengths is taken as the engagement
CalculateThreadEngagementMax(f, m) ==
    IF m.threaded_length >= f.threaded_length
    THEN m.threaded_length ELSE f.threaded_length

\* Junction._calculate_thread_engagement
CalculateThreadEngagement(f, m) == Min(m.threaded_length, f.threaded_length)

\* Junction.grip_length
GripLength(cc) == IF cc = <<>> THEN 0 ELSE SumThickness(cc)

\* Junction.stack_up_thickness
StackUpThickness(m, cc) ==
    IF m.cls = "ThreadedPlate"
    THEN SumThickness(SelectSeq(cc, LAMBDA comp : comp # m))
    ELSE GripLength(cc)

\* the length the fastener has to exceed
RequiredLength(m, cc) ==
    IF m.cls = "Nut"
    THEN StackUpThickness(m, cc) + Height(m)
    ELSE StackUpThickness(m, cc)

\* thread_engagement < 0.5 * nominal_diameter
InsufficientEngagement(f, m) ==
    LET nd == NominalDiameter(f.thread_spec)
    IN  2 * nd[2] * CalculateThreadEngagement(f, m) < nd[1]

\* fastener.length <= required_length
FastenerLengthInsufficient(f, m, cc) == f.length <= RequiredLength(m, cc)

\* variant: the thread specifications are not compared
ValidateAssemblyNoThreadCheck(f, m, cc) ==
    IF f = NoneObj \/ m = NoneObj \/ cc = <<>> THEN "missing"
    ELSE IF ~f.material.has_yield \/ ~m.material.has_yield THEN "material"
    ELSE IF InsufficientEngagement(f, m) THEN "engagement"
    ELSE IF FastenerLengthInsufficient(f, m, cc) THEN "length"
    ELSE "ok"

\* Junction._validate_assembly: "ok", or the check that raised ValueError
ValidateAssembly(f, m, cc) ==
    IF f = NoneObj \/ m = NoneObj \/ cc = <<>> THEN "missing"
    ELSE IF f.thread_spec # m.thread_spec THEN "thread"
    ELSE IF ~f.material.has_yield \/ ~m.material.has_yield THEN "material"
    ELSE IF InsufficientEngagement(f, m) THEN "engagement"
    ELSE IF FastenerLengthInsufficient(f, m, cc) THEN "length"
    ELSE "ok"

\* Junction.configuration_type
ConfigurationType(f, m) ==
    LET is_flat_head == "is_flat_head" \in DOMAIN f /\ f.is_flat_head
        is_threaded_end == m.cls = "ThreadedPlate"
    IN  IF is_flat_head /\ is_threaded_end THEN "FLAT_HEAD_THREADED"
        ELSE IF is_flat_head THEN "FLAT_HEAD_THROUGH"
        ELSE IF is_threaded_end THEN "THREADED_END"
        ELSE "THROUGH_BOLT"

----------------------------------------------------------------------------
(* Python list operations with Python's index rules (0-based, negatives) *)

\* list.pop(i) accepts -n <= i < n
PopInRange(s, i) == -Len(s) <= i /\ i < Len(s)

\* the 1-based position list.pop(i) removes
PopPos(s, i) == IF i < 0 THEN i + Len(s) + 1 ELSE i + 1

\* variant: the components after the removed one come first
RemoveAtRotated(s, p) == SubSeq(s, p + 1, Len(s)) \o SubSeq(s, 1, p - 1)

RemoveAt(s, p) == SubSeq(s, 1, p - 1) \o SubSeq(s, p + 1, Len(s))

\* list.insert(i, x): a negative i counts from the end of the current
\* list, and the result is clamped to 0..len
ListInsert(s, i, x) ==
    LET j == IF i < 0 THEN i + Len(s) ELSE i
        k == IF j < 0 THEN 0 ELSE IF j > Len(s) THEN Len(s) ELSE j
    IN  SubSeq(s, 1, k) \o <<x>> \o SubSeq(s, k + 1, Len(s))

----------------------------------------------------------------------------
(* Calls and their outcome *)

Call(op, err, arg, ret) == [op |-> op, err |-> err, arg |-> arg, ret |-> ret]

IntArg(i) == [cls |-> "int", value |-> i]

CtorArg(f, cc, m) == [cls |-> "args", fastener |-> f, clamped_components |-> cc,
                      threaded_member |-> m]

Raised == last.err # "ok"

\* the lists of at most n components
StacksUpTo(n) == UNION { [1..k -> Components] : k \in 0..n }

\* variant: each component is appended once the list before it has passed
\* validation, and nothing validates the complete list
RECURSIVE AddAllValidateBefore(_, _, _, _)
AddAllValidateBefore(f, m, done, rest) ==
    IF rest = <<>> THEN "ok"
    ELSE IF ~IsClampedComponent(Head(rest)) THEN "type"
    ELSE IF done # <<>> /\ ValidateAssembly(f, m, done) # "ok"
    THEN ValidateAssembly(f, m, done)
    ELSE AddAllValidateBefore(f, m, Append(done, Head(rest)), Tail(rest))

\* Junction.__init__ from its add_clamped_component loop on: every
\* component is appended and the assembly validated, then validated again
RECURSIVE AddAll(_, _, _, _)
AddAll(f, m, done, rest) ==
    IF rest = <<>> THEN ValidateAssembly(f, m, done)
    ELSE IF ~IsClampedComponent(Head(rest)) THEN "type"
    ELSE LET d == Append(done, Head(rest))
         IN  IF ValidateAssembly(f, m, d) # "ok"
             THEN ValidateAssembly(f, m, d)
             ELSE AddAll(f, m, d, Tail(rest))

\* the outcome of Junction.__init__
InitError(f, cc, m) ==
    IF cc = <<>> THEN "empty"
    ELSE IF ~IsFastener(f) THEN "type"
    ELSE IF ~IsThreadedMember(m) THEN "type"
    ELSE AddAll(f, m, <<>>, cc)

NoAnalysis == [built |-> FALSE]

NoEnvironment == [err |-> "none"]

NoMargins == [fn |-> "none"]

\* Material.__init__: no strength is set
NewMaterial ==
    [yield_strength |-> [kind |-> "None"], ultimate_strength |-> [kind |-> "None"],
     op |-> "none", arg |-> NoneObj, err |-> "ok"]

Init ==
    /\ constructed = FALSE
    /\ fastener = NoneObj
    /\ threaded_member = NoneObj
    /\ clamped_components = <<>>
    /\ last = Call("none", "ok", NoneObj, NoneObj)
    /\ analysis = NoAnalysis
    /\ environment = NoEnvironment
    /\ margins = NoMargins
    /\ mat = NewMaterial

\* Junction(fastener, clamped_components, threaded_member), called once:
\* a constructor that raised leaves no Junction to operate on
Construct(f, cc, m) ==
    /\ ~constructed
    /\ last.op = "none"
    /\ LET err == InitError(f, cc, m)
       IN  /\ last' = Call("construct", err, CtorArg(f, cc, m), NoneObj)
           /\ IF err = "ok"
              THEN /\ constructed' = TRUE
                   /\ fastener' = f
                   /\ threaded_member' = m
                   /\ clamped_components' = cc
              ELSE UNCHANGED <<constructed, fastener, threaded_member,
                               clamped_components>>
    /\ UNCHANGED <<analysis, environment, margins, mat>>

\* variant: the component is put at the front of the stack
AddClampedComponentFront(c) ==
    /\ constructed
    /\ Len(clamped_components) < MaxStack
    /\ IF ~IsClampedComponent(c)
       THEN /\ last' = Call("add", "type", c, NoneObj)
            /\ UNCHANGED clamped_components
       ELSE /\ clamped_components' = <<c>> \o clamped_components
            /\ last' = Call("add",
                            ValidateAssembly(fastener, threaded_member,
                                             <<c>> \o clamped_components),
                            c, NoneObj)
    /\ UNCHANGED <<constructed, fastener, threaded_member, analysis, environment, margins, mat>>

\* Junction.add_clamped_component
AddClampedComponent(c) ==
    /\ constructed
    /\ Len(clamped_components) < MaxStack
    /\ IF ~IsClampedComponent(c)
       THEN /\ last' = Call("add", "type", c, NoneObj)
            /\ UNCHANGED clamped_components
       ELSE /\ clamped_components' = Append(clamped_components, c)
            /\ last' = Call("add",
                            ValidateAssembly(fastener, threaded_member,
                                             Append(clamped_components, c)),
                            c, NoneObj)
    /\ UNCHANGED <<constructed, fastener, threaded_member, analysis, environment, margins, mat>>

\* variant: no check for the last remaining component before the pop
RemoveClampedComponentNoGuard(index) ==
    /\ constructed
    /\ IF ~PopInRange(clamped_components, index)
       THEN /\ last' = Call("remove", "index", IntArg(index), NoneObj)
            /\ UNCHANGED clamped_components
       ELSE LET p == PopPos(clamped_components, index)
                component == clamped_components[p]
                popped == RemoveAt(clamped_components, p)
                err == ValidateAssembly(fastener, threaded_member, popped)
            IN  IF err = "ok"
                THEN /\ clamped_components' = popped
                     /\ last' = Call("remove", "ok", IntArg(index), component)
                ELSE /\ clamped_components' = ListInsert(popped, index, component)
                     /\ last' = Call("remove", err, IntArg(index), NoneObj)
    /\ UNCHANGED <<constructed, fastener, threaded_member, analysis, environment, margins, mat>>

\* Junction.remove_clamped_component
RemoveClampedComponent(index) ==
    /\ constructed
    /\ IF Len(clamped_components) <= 1
       THEN /\ last' = Call("remove", "last", IntArg(index), NoneObj)
            /\ UNCHANGED clamped_components
       ELSE IF ~PopInRange(clamped_components, index)
       THEN /\ last' = Call("remove", "index", IntArg(index), NoneObj)
            /\ UNCHANGED clamped_components
       ELSE LET p == PopPos(clamped_components, index)
                component == clamped_components[p]
                popped == RemoveAt(clamped_components, p)
                err == ValidateAssembly(fastener, threaded_member, popped)
            IN  IF err = "ok"
                THEN /\ clamped_components' = popped
                     /\ last' = Call("remove", "ok", IntArg(index), component)
                ELSE /\ clamped_components' = ListInsert(popped, index, component)
                     /\ last' = Call("remove", err, IntArg(index), NoneObj)
    /\ UNCHANGED <<constructed, fastener, threaded_member, analysis, environment, margins, mat>>

\* variant: the old fastener is not put back when validation fails
SetFastenerNoRollback(f) ==
    /\ constructed
    /\ IF ~IsFastener(f)
       THEN /\ last' = Call("set_fastener", "type", f, NoneObj)
            /\ UNCHANGED fastener
       ELSE /\ last' = Call("set_fastener",
                            ValidateAssembly(f, threaded_member, clamped_components),
                            f, NoneObj)
            /\ fastener' = f
    /\ UNCHANGED <<constructed, threaded_member, clamped_components, analysis, environment, margins, mat>>

\* Junction.set_fastener
SetFastener(f) ==
    /\ constructed
    /\ IF ~IsFastener(f)
       THEN /\ last' = Call("set_fastener", "type", f, NoneObj)
            /\ UNCHANGED fastener
       ELSE LET err == ValidateAssembly(f, threaded_member, clamped_components)
            IN  /\ last' = Call("set_fastener", err, f, NoneObj)
                /\ fastener' = IF err = "ok" THEN f ELSE fastener
    /\ UNCHANGED <<constructed, threaded_member, clamped_components, analysis, environment, margins, mat>>

\* Junction.set_threaded_member
SetThreadedMember(m) ==
    /\ constructed
    /\ IF ~IsThreadedMember(m)
       THEN /\ last' = Call("set_threaded_member", "type", m, NoneObj)
            /\ UNCHANGED threaded_member
       ELSE LET err == ValidateAssembly(fastener, m, clamped_components)
            IN  /\ last' = Call("set_threaded_member", err, m, NoneObj)
                /\ threaded_member' = IF err = "ok" THEN m ELSE threaded_member
    /\ UNCHANGED <<constructed, fastener, clamped_components, analysis, environment, margins, mat>>

\* junction.fastener = value (the property setter)
AssignFastener(value) ==
    /\ constructed
    /\ IF ~IsFastener(value)
       THEN /\ last' = Call("assign_fastener", "type", value, NoneObj)
            /\ UNCHANGED fastener
       ELSE /\ last' = Call("assign_fastener", "ok", value, NoneObj)
            /\ fastener' = value
    /\ UNCHANGED <<constructed, threaded_member, clamped_components, analysis, environment, margins, mat>>

\* junction.threaded_member = value (the property setter)
AssignThreadedMember(value) ==
    /\ constructed
    /\ IF ~IsThreadedMember(value)
       THEN /\ last' = Call("assign_threaded_member", "type", value, NoneObj)
            /\ UNCHANGED threaded_member
       ELSE /\ last' = Call("assign_threaded_member", "ok", value, NoneObj)
            /\ threaded_member' = value
    /\ UNCHANGED <<constructed, fastener, clamped_components, analysis, environment, margins, mat>>

DoConstruct ==
    /\ last.op = "none"
    /\ \E f \in Fasteners \cup {Other}, m \in ThreadedMembers \cup {Other},
       cc \in StacksUpTo(MaxStack) : Construct(f, cc, m)

DoAdd == constructed /\ \E c \in Components \cup {Other} : AddClampedComponent(c)

DoRemove == constructed /\ \E i \in (0 - MaxStack - 1)..MaxStack : RemoveClampedComponent(i)

DoSetFastener == constructed /\ \E f \in Fasteners \cup {Other} : SetFastener(f)

DoSetThreadedMember == constructed /\ \E m \in ThreadedMembers \cup {Other} : SetThreadedMember(m)

DoAssignFastener == constructed /\ \E f \in Fasteners \cup {Other} : AssignFastener(f)

DoAssignThreadedMember ==
    constructed /\ \E m \in ThreadedMembers \cup {Other} : AssignThreadedMember(m)

\* the Junction's methods
NextMethods ==
    \/ DoConstruct
    \/ DoAdd
    \/ DoRemove
    \/ DoSetFastener
    \/ DoSetThreadedMember

\* every public operation on a Junction, attribute assignment included
Next ==
    \/ DoConstruct
    \/ DoAdd
    \/ DoRemove
    \/ DoSetFastener
    \/ DoSetThreadedMember
    \/ DoAssignFastener
    \/ DoAssignThreadedMember

Spec == Init /\ [][Next]_vars

SpecMethods == Init /\ [][NextMethods]_vars

----------------------------------------------------------------------------
(* Environment and NASA5020Analysis *)
(* Forces are fractions of a newton, moments of a newton millimetre,      *)
(* temperatures of a kelvin, lengths (here) of a millimetre.              *)

Temperatures == { <<250, 300, 350>>, <<300, 300, 300>>, <<250, 300, 300>>,
                  <<350, 300, 250>>, <<0, 300, 350>> }

Torques == { 0, 6000, 12000 }

Environment(t, torque) ==
    [cls |-> "Environment", tension |-> R(1000, 1), shear |-> R(500, 1),
     bending |-> R(100000, 1), min_temp |-> R(t[1], 1), nom_temp |-> R(t[2], 1),
     max_temp |-> R(t[3], 1), preload_torque |-> R(torque, 1), numpy |-> FALSE]

\* Environment.validate on quantities of the right dimension
EnvironmentValid(e) ==
    /\ \A temp \in {e.min_temp, e.nom_temp, e.max_temp} : ~RatLeq(temp, R(0, 1))
    /\ ~RatLeq(e.preload_torque, R(0, 1))

\* the Environment objects construction returns
Environments ==
    { e \in { Environment(t, q) : t \in Temperatures, q \in Torques } :
        EnvironmentValid(e) }

TheJunction == [cls |-> "Junction"]

DefaultSafetyFactors ==
    [ultimate |-> R(14, 10), yield |-> R(12, 10), separation |-> R(12, 10)]

Configurations ==
    [unit_system : {"metric", "imperial", "cgs"},
     friction_coefficient : {R(0, 1), R(2, 10)},
     safety_factors : {DefaultSafetyFactors, [ultimate |-> R(1, 2)],
                       [ultimate |-> R(14, 10), yield |-> R(1, 1),
                        separation |-> R(12, 10)]},
     fitting_factor : {R(1, 1), R(1, 2)},
     nut_factor : {R(2, 10), R(0, 1), R(-2, 10)},
     preload_uncertainty_factor : {R(25, 100), R(0, 1), R(-1, 2), R(3, 2)}]

\* variant: the safety factors only have to be present
ValidateInputsAnyFactor(j, e, cfg) ==
    IF j.cls # "Junction" THEN "TypeError"
    ELSE IF e.cls # "Environment" THEN "TypeError"
    ELSE IF cfg.unit_system \notin {"metric", "imperial"} THEN "ValueError"
    ELSE IF ~(RatLt(R(0, 1), cfg.friction_coefficient)
              /\ RatLeq(cfg.friction_coefficient, R(1, 1))) THEN "ValueError"
    ELSE IF ~({"ultimate", "yield", "separation"} \subseteq DOMAIN cfg.safety_factors)
         THEN "ValueError"
    ELSE IF RatLt(cfg.fitting_factor, R(1, 1)) THEN "ValueError"
    ELSE "ok"

\* NASA5020Analysis._validate_inputs: "ok", or the exception raised
ValidateInputs(j, e, cfg) ==
    IF j.cls # "Junction" THEN "TypeError"
    ELSE IF e.cls # "Environment" THEN "TypeError"
    ELSE IF cfg.unit_system \notin {"metric", "imperial"} THEN "ValueError"
    ELSE IF ~(RatLt(R(0, 1), cfg.friction_coefficient)
              /\ RatLeq(cfg.friction_coefficient, R(1, 1))) THEN "ValueError"
    ELSE IF ~({"ultimate", "yield", "separation"} \subseteq DOMAIN cfg.safety_factors)
         THEN "ValueError"
    ELSE IF ~(\A k \in DOMAIN cfg.safety_factors :
                 RatLt(R(1, 1), cfg.safety_factors[k])) THEN "ValueError"
    ELSE IF RatLt(cfg.fitting_factor, R(1, 1)) THEN "ValueError"
    ELSE "ok"

\* NASA5020Analysis._get_stress_area: 0.25 * 3.14159 * diameter ** 2
StressArea(f) ==
    LET diameter == ParsedNominalDiameter(f.thread_spec)
    IN  RatMul(R(314159, 400000), RatMul(diameter, diameter))

RECURSIVE SumAlphas(_)
SumAlphas(cc) ==
    IF cc = <<>> THEN R(0, 1)
    ELSE RatAdd(Head(cc).material.thermal_expansion, SumAlphas(Tail(cc)))

NoPreloads == [err |-> "none"]

\* the margins of an analysis, none of them calculated yet
NoResults == [op \in {"ultimate", "yield", "slip", "separation"} |-> [err |-> "none"]]

\* NASA5020Analysis.calculate_preloads
CalculatePreloadsResult(f, cc, e, cfg) ==
    LET diameter == ParsedNominalDiameter(f.thread_spec)
        nut_factor == cfg.nut_factor
        kd == RatMul(nut_factor, diameter)
    IN  IF kd[1] = 0 \/ cc = <<>> THEN [err |-> "ZeroDivisionError"]
        ELSE
        LET base_preload == RatDiv(e.preload_torque, kd)
            base_max_preload ==
                RatMul(RatAdd(R(1, 1), cfg.preload_uncertainty_factor), base_preload)
            base_min_preload ==
                RatMul(RatSub(R(1, 1), cfg.preload_uncertainty_factor), base_max_preload)
            delta_T_cold == RatSub(e.nom_temp, e.min_temp)
            delta_T_hot == RatSub(e.max_temp, e.nom_temp)
            alpha_bolt == f.material.thermal_expansion
            E_bolt == f.material.elastic_modulus
            stress_area == StressArea(f)
            alpha_joint == RatDiv(SumAlphas(cc), R(Len(cc), 1))
            delta_alpha == RatSub(alpha_bolt, alpha_joint)
            thermal_strain_hot == RatMul(delta_alpha, delta_T_hot)
            thermal_strain_cold == RatMul(delta_alpha, delta_T_cold)
            delta_P_t_hot == RatMul(RatMul(thermal_strain_hot, E_bolt), stress_area)
            delta_P_t_cold == RatMul(RatMul(thermal_strain_cold, E_bolt), stress_area)
            delta_P_t_max == RatMax(RatAbs(delta_P_t_hot), RatAbs(delta_P_t_cold))
            delta_P_t_min == RatMin(RatAbs(delta_P_t_hot), RatAbs(delta_P_t_cold))
        IN  [err |-> "ok",
             min_preload |-> RatSub(base_min_preload, delta_P_t_min),
             max_preload |-> RatAdd(base_max_preload, delta_P_t_max),
             nominal_preload |-> base_preload,
             unit |-> IF cfg.unit_system = "imperial" THEN "lbf" ELSE "newton"]

\* NASA5020Analysis(junction, environment, **config), called once
NewAnalysis(j, e, cfg) ==
    /\ constructed
    /\ analysis = NoAnalysis
    /\ analysis' = [built |-> ValidateInputs(j, e, cfg) = "ok",
                    err |-> ValidateInputs(j, e, cfg), junction |-> j,
                    environment |-> e, config |-> cfg, preloads |-> NoPreloads,
                    results |-> NoResults]
    /\ UNCHANGED <<jvars, environment, margins, mat>>

\* analysis.calculate_preloads()
CalculatePreloads ==
    /\ analysis.built
    /\ analysis' = [analysis EXCEPT !.preloads =
                       CalculatePreloadsResult(fastener, clamped_components,
                                               analysis.environment, analysis.config)]
    /\ UNCHANGED <<jvars, environment, margins, mat>>

DoNewAnalysis ==
    /\ analysis = NoAnalysis
    /\ \E j \in {TheJunction, Other}, e \in Environments \cup {Other},
       cfg \in Configurations : NewAnalysis(j, e, cfg)

\* the metric junctions the analysis runs on
InitAnalysis ==
    /\ constructed = TRUE
    /\ fastener \in { f \in Fasteners : f.thread_spec = M6 }
    /\ threaded_member \in { m \in ThreadedMembers : m.thread_spec = M6 }
    /\ clamped_components \in StacksUpTo(2)
    /\ InitError(fastener, clamped_components, threaded_member) = "ok"
    /\ last = Call("construct", "ok",
                   CtorArg(fastener, clamped_components, threaded_member), NoneObj)
    /\ analysis = NoAnalysis
    /\ environment = NoEnvironment
    /\ margins = NoMargins
    /\ mat = NewMaterial

NextAnalysis ==
    \/ DoNewAnalysis
    \/ CalculatePreloads

SpecAnalysis == InitAnalysis /\ [][NextAnalysis]_vars

----------------------------------------------------------------------------
(* Junction: stiffness and loading plane calculations                      *)
(* Lengths are fractions of a millimetre, moduli of a newton per square    *)
(* millimetre.  A float whose value involves pi or a logarithm is kept as  *)
(* the exact quantities that decide its sign.                              *)

\* a length of the component layer (ticks) as a fraction of a millimetre
MmOf(ticks) == R(ticks, 80)

Sgn(q) == IF q[1] > 0 THEN 1 ELSE IF q[1] < 0 THEN 0 - 1 ELSE 0

\* python's s[a:b] for 0 <= a, with b counted from the end when negative
Slice(s, a, b) == SubSeq(s, a + 1, IF b < 0 THEN Len(s) + b ELSE b)

\* [comp.thickness for comp in self._clamped_components]
Thicknesses(cc) == [i \in 1..Len(cc) |-> MmOf(cc[i].thickness)]

\* [comp.material.elastic_modulus for comp in self._clamped_components]
Moduli(cc) == [i \in 1..Len(cc) |-> cc[i].material.elastic_modulus]

RECURSIVE RatSum(_)
RatSum(s) == IF s = <<>> THEN R(0, 1) ELSE RatAdd(Head(s), RatSum(Tail(s)))

\* sum(l / E for l, E in zip(ls, Es))
SumLOverE(ls, Es) == RatSum([i \in 1..Len(ls) |-> RatDiv(ls[i], Es[i])])

\* Junction._get_configuration_parameters: L, D and the quotient E_j is
\* made of (E_j = L / (2 pi) / sum_l_E, L / sum_l_E ** 0.5 or L / sum_l_E)
ConfigurationParameters(config, D, thicknesses, moduli, h, thread_length) ==
    LET n == Len(thicknesses)
        last_adjusted == RatSub(thicknesses[n], RatDiv(thread_length, R(2, 1)))
        first_adjusted == RatSub(thicknesses[1], RatDiv(h, R(2, 1)))
    IN  CASE config = "THROUGH_BOLT" ->
               [L |-> RatSum(thicknesses), D |-> D,
                sum_l_E |-> SumLOverE(thicknesses, moduli), form |-> "L/2pi/sum"]
          [] config = "FLAT_HEAD_THROUGH" ->
               [L |-> RatSub(RatSum(thicknesses), RatDiv(h, R(2, 1))), D |-> D,
                sum_l_E |-> SumLOverE(thicknesses, moduli), form |-> "L/sqrt(sum)"]
          [] config = "THREADED_END" ->
               [L |-> RatAdd(RatSum(Slice(thicknesses, 0, -1)), last_adjusted),
                D |-> D,
                sum_l_E |-> RatAdd(SumLOverE(Slice(thicknesses, 0, -1),
                                             Slice(moduli, 0, -1)),
                                   RatDiv(last_adjusted, moduli[n])),
                form |-> "L/sum"]
          [] OTHER ->
               [L |-> RatAdd(RatAdd(first_adjusted,
                                    RatSum(Slice(thicknesses, 1, -1))),
                             last_adjusted),
                D |-> D,
                sum_l_E |-> RatAdd(RatAdd(RatDiv(first_adjusted, moduli[1]),
                                          SumLOverE(Slice(thicknesses, 1, -1),
                                                    Slice(moduli, 1, -1))),
                                   RatDiv(last_adjusted, moduli[n])),
                form |-> "L/sum"]

GetConfigurationParameters(f, m, cc) ==
    ConfigurationParameters(ConfigurationType(f, m),
                            ParsedNominalDiameter(f.thread_spec), Thicknesses(cc),
                            Moduli(cc), MmOf(f.head_height), MmOf(m.threaded_length))

\* the sign of E_j, or the exception its division raises
ModulusSign(params) ==
    IF Sgn(params.sum_l_E) = 0 THEN [err |-> "ZeroDivisionError"]
    ELSE IF params.form = "L/sqrt(sum)" /\ Sgn(params.sum_l_E) < 0
    THEN [err |-> "TypeError"]
    ELSE [err |-> "ok", sign |-> Sgn(params.L) * Sgn(params.sum_l_E)]

\* the quotient the logarithm of calculate_joint_stiffness is taken of, as
\* <<numerator, denominator>>
LogArgumentOf(config, params, d_h) ==
    LET L == params.L
        D == params.D
        d_w == RatDiv(RatAdd(d_h, D), R(2, 1))
        low == RatAdd(L, RatMul(R(1, 2), D))
        high == RatAdd(L, RatMul(R(5, 2), D))
        flat_num == RatMul(RatSub(RatAdd(L, d_w), D), RatAdd(d_w, D))
        flat_den == RatMul(RatAdd(RatAdd(L, d_w), D), RatSub(d_w, D))
    IN  CASE config = "THROUGH_BOLT" -> <<low, high>>
          [] config = "FLAT_HEAD_THROUGH" ->
               <<RatMul(flat_num, low), RatMul(flat_den, high)>>
          [] config = "THREADED_END" ->
               <<RatAdd(RatMul(R(2, 1), L), RatMul(R(1, 2), D)),
                 RatAdd(RatMul(R(2, 1), L), RatMul(R(5, 2), D))>>
          [] OTHER -> <<flat_num, flat_den>>

LogArgument(f, m, cc) ==
    LogArgumentOf(ConfigurationType(f, m), GetConfigurationParameters(f, m, cc),
                  MmOf(f.head_diameter))

\* math.log(num / den): the sign of the result, or the exception raised
LogSign(num, den) ==
    IF Sgn(den) = 0 THEN [err |-> "ZeroDivisionError"]
    ELSE IF Sgn(num) * Sgn(den) <= 0 THEN [err |-> "ValueError"]
    ELSE [err |-> "ok", sign |-> Sgn(RatSub(RatDiv(num, den), R(1, 1)))]

\* Junction.calculate_bolt_stiffness: K_b / pi = 0.25 * D ** 2 * E_b / L
BoltStiffnessOf(params, E_b) ==
    IF ModulusSign(params).err # "ok" THEN [err |-> ModulusSign(params).err]
    ELSE IF Sgn(params.L) = 0 THEN [err |-> "ZeroDivisionError"]
    ELSE [err |-> "ok",
          over_pi |-> RatDiv(RatMul(RatMul(R(1, 4), RatMul(params.D, params.D)),
                                    E_b),
                             params.L)]

BoltStiffness(f, m, cc) ==
    BoltStiffnessOf(GetConfigurationParameters(f, m, cc), f.material.elastic_modulus)

\* Junction.calculate_joint_stiffness: the sign of K_j
JointStiffnessOf(params, arg) ==
    LET E_j == ModulusSign(params)
        log == LogSign(arg[1], arg[2])
    IN  IF E_j.err # "ok" THEN [err |-> E_j.err]
        ELSE IF log.err # "ok" THEN [err |-> log.err]
        ELSE IF log.sign = 0 THEN [err |-> "ZeroDivisionError"]
        ELSE [err |-> "ok", sign |-> E_j.sign * Sgn(params.D) * log.sign]

JointStiffness(f, m, cc) ==
    JointStiffnessOf(GetConfigurationParameters(f, m, cc), LogArgument(f, m, cc))

\* Junction.calculate_stiffness_factor: float(K_b / (K_b + K_j)) lies in
\* (0, 1) when K_b and K_j have the same sign, is 1.0 when K_j is zero, and
\* otherwise is outside [0, 1] (or the division by K_b + K_j = 0 fails)
StiffnessFactorOf(K_b, K_j) ==
    IF K_b.err # "ok" THEN [err |-> K_b.err]
    ELSE IF K_j.err # "ok" THEN [err |-> K_j.err]
    ELSE [err |-> "ok",
          range |-> IF K_j.sign = 0 THEN "1"
                    ELSE IF Sgn(K_b.over_pi) = K_j.sign THEN "(0,1)"
                    ELSE "outside [0,1]"]

StiffnessFactor(f, m, cc) ==
    StiffnessFactorOf(BoltStiffness(f, m, cc), JointStiffness(f, m, cc))

\* Junction.calculate_loading_plane_factor
LoadingPlaneFactorOf(config, thicknesses, h, thread_length) ==
    LET n == Len(thicknesses)
        total_thickness == RatSum(thicknesses)
        half_last == RatDiv(thicknesses[n], R(2, 1))
        last_adjusted == RatSub(thicknesses[n], RatDiv(thread_length, R(2, 1)))
        first_adjusted == RatSub(thicknesses[1], RatDiv(h, R(2, 1)))
        numerator ==
            CASE config = "THROUGH_BOLT" ->
                   RatAdd(RatSum(Slice(thicknesses, 0, -1)), half_last)
              [] config = "FLAT_HEAD_THROUGH" ->
                   RatAdd(RatAdd(first_adjusted, RatSum(Slice(thicknesses, 1, -1))),
                          half_last)
              [] config = "THREADED_END" ->
                   RatAdd(RatSum(Slice(thicknesses, 0, -1)), last_adjusted)
              [] OTHER ->
                   RatAdd(RatAdd(first_adjusted, RatSum(Slice(thicknesses, 1, -1))),
                          last_adjusted)
    IN  IF Sgn(total_thickness) = 0 THEN [err |-> "ZeroDivisionError"]
        ELSE [err |-> "ok", n |-> RatDiv(numerator, total_thickness)]

LoadingPlaneFactor(f, m, cc) ==
    LoadingPlaneFactorOf(ConfigurationType(f, m), Thicknesses(cc),
                         MmOf(f.head_height), MmOf(m.threaded_length))

\* junction.configuration_type: reads the Junction and returns or raises
ReadConfigurationType ==
    /\ constructed
    /\ LET result == [err |-> "ok", value |-> ConfigurationType(fastener, threaded_member)]
       IN  last' = Call("configuration_type", result.err, NoneObj, result)
    /\ UNCHANGED <<constructed, fastener, threaded_member, clamped_components,
                   analysis, environment, margins, mat>>

\* junction.calculate_bolt_stiffness(): reads the Junction and returns or raises
CalculateBoltStiffness ==
    /\ constructed
    /\ LET result == BoltStiffness(fastener, threaded_member, clamped_components)
       IN  last' = Call("calculate_bolt_stiffness", result.err, NoneObj, result)
    /\ UNCHANGED <<constructed, fastener, threaded_member, clamped_components,
                   analysis, environment, margins, mat>>

\* junction.calculate_joint_stiffness(): reads the Junction and returns or raises
CalculateJointStiffness ==
    /\ constructed
    /\ LET result == JointStiffness(fastener, threaded_member, clamped_components)
       IN  last' = Call("calculate_joint_stiffness", result.err, NoneObj, result)
    /\ UNCHANGED <<constructed, fastener, threaded_member, clamped_components,
                   analysis, environment, margins, mat>>

\* junction.calculate_stiffness_factor(): reads the Junction and returns or raises
CalculateStiffnessFactor ==
    /\ constructed
    /\ LET result == StiffnessFactor(fastener, threaded_member, clamped_components)
       IN  last' = Call("calculate_stiffness_factor", result.err, NoneObj, result)
    /\ UNCHANGED <<constructed, fastener, threaded_member, clamped_components,
                   analysis, environment, margins, mat>>

\* junction.calculate_loading_plane_factor(): reads the Junction and returns or raises
CalculateLoadingPlaneFactor ==
    /\ constructed
    /\ LET result == LoadingPlaneFactor(fastener, threaded_member, clamped_components)
       IN  last' = Call("calculate_loading_plane_factor", result.err, NoneObj, result)
    /\ UNCHANGED <<constructed, fastener, threaded_member, clamped_components,
                   analysis, environment, margins, mat>>

\* a sheet thinner than half the threaded length of the plate below it
ThinPlate == [cls |-> "PlateComponent", thickness |-> Mm(1), material |-> Aluminium,
              tag |-> 3]

\* a plate threaded over most of its thickness
DeepThreadedPlate == [cls |-> "ThreadedPlate", thread_spec |-> UNC14,
                      thickness |-> Mm(12), threaded_length |-> Mm(10),
                      material |-> Steel]

\* the constructed Junctions the calculations are run on
InitCalc ==
    /\ constructed = TRUE
    /\ fastener \in Fasteners
    /\ threaded_member \in ThreadedMembers \cup {DeepThreadedPlate}
    /\ clamped_components \in
          UNION { [1..k -> Components \cup {ThinPlate}] : k \in 1..2 }
    /\ InitError(fastener, clamped_components, threaded_member) = "ok"
    /\ last = Call("construct", "ok",
                   CtorArg(fastener, clamped_components, threaded_member), NoneObj)
    /\ analysis = NoAnalysis
    /\ environment = NoEnvironment
    /\ margins = NoMargins
    /\ mat = NewMaterial

NextCalc ==
    \/ ReadConfigurationType
    \/ CalculateBoltStiffness
    \/ CalculateJointStiffness
    \/ CalculateStiffnessFactor
    \/ CalculateLoadingPlaneFactor

SpecCalc == InitCalc /\ [][NextCalc]_vars

----------------------------------------------------------------------------
(* Environment construction                                                *)
(* A constructor argument is a pint Quantity, a value with the dimension   *)
(* of its unit, or (dimension "none") a bare number.                       *)

Qty(value, dim) == [value |-> value, dim |-> dim]

\* the keyword arguments of Environment(...)
EnvironmentArgs(tension, shear, bending, min_temp, nom_temp, max_temp, preload_torque, numpy) ==
    [tension |-> tension, shear |-> shear, bending |-> bending,
     min_temp |-> min_temp, nom_temp |-> nom_temp, max_temp |-> max_temp,
     preload_torque |-> preload_torque, numpy |-> numpy]

\* variant: the sign of the preload torque is not checked
ValidateNoTorqueCheck(a) ==
    IF \E temp \in {a.min_temp, a.nom_temp, a.max_temp} :
          temp.dim # "temperature" \/ RatLeq(temp.value, R(0, 1))
    THEN "ValueError"
    ELSE IF \E force \in {a.tension, a.shear} : force.dim # "force"
    THEN "ValueError"
    ELSE IF \E moment \in {a.bending, a.preload_torque} : moment.dim # "moment"
    THEN "ValueError"
    ELSE "ok"

\* Environment.validate: "ok", or the exception raised
Validate(a) ==
    IF \E temp \in {a.min_temp, a.nom_temp, a.max_temp} :
          temp.dim # "temperature" \/ RatLeq(temp.value, R(0, 1))
    THEN "ValueError"
    ELSE IF \E force \in {a.tension, a.shear} : force.dim # "force"
    THEN "ValueError"
    ELSE IF \E moment \in {a.bending, a.preload_torque} : moment.dim # "moment"
    THEN "ValueError"
    ELSE IF RatLeq(a.preload_torque.value, R(0, 1)) THEN "ValueError"
    ELSE "ok"

\* the Environment object the dataclass constructor builds from its arguments
EnvironmentObject(a) ==
    [cls |-> "Environment", tension |-> a.tension.value, shear |-> a.shear.value,
     bending |-> a.bending.value, min_temp |-> a.min_temp.value,
     nom_temp |-> a.nom_temp.value, max_temp |-> a.max_temp.value,
     preload_torque |-> a.preload_torque.value, numpy |-> a.numpy]

\* Environment(...): __init__ stores the arguments, __post_init__ validates
NewEnvironment(a) ==
    /\ environment = NoEnvironment
    /\ environment' = [err |-> Validate(a), how |-> "direct", args |-> a,
                       object |-> IF Validate(a) = "ok" THEN EnvironmentObject(a)
                                  ELSE NoneObj]
    /\ UNCHANGED <<jvars, analysis, margins, mat>>

\* np.sqrt of a perfect square
RECURSIVE SqrtBetween(_, _, _)
SqrtBetween(n, lo, hi) ==
    IF lo = hi THEN lo
    ELSE LET mid == (lo + hi + 1) \div 2
         IN  IF mid * mid <= n THEN SqrtBetween(n, mid, hi)
             ELSE SqrtBetween(n, lo, mid - 1)

Sqrt(n) == SqrtBetween(n, 0, 46340)

\* Quantity.to_base_units().magnitude under the registry's default system
\* 'imperial' (base units pound, yard, second), to three decimals:
\* 1 N = 2.411 lb yd / s^2 and 1 N mm = 0.002637 lb yd^2 / s^2
ForceToBaseUnits(q) == RatMul(R(2411, 1000), q)
MomentToBaseUnits(q) == RatMul(R(2637, 1000000), q)

\* Environment.set_force_from_6dof on forces in newton and moments in newton
\* millimetre (integers): the arguments it hands to the constructor, or the
\* exception it raises itself
Force6dofArgs(forces, moments, fastener_axis) ==
    IF Len(forces) # 3 \/ Len(moments) # 3 THEN [err |-> "ValueError"]
    ELSE IF fastener_axis \notin {"x", "y", "z"} THEN [err |-> "ValueError"]
    ELSE
    LET axis_idx == CASE fastener_axis = "x" -> 1
                      [] fastener_axis = "y" -> 2
                      [] OTHER -> 3
        perp == {1, 2, 3} \ {axis_idx}
        i == CHOOSE k \in perp : TRUE
        j == CHOOSE k \in perp : k # i
    IN  [err |-> "ok",
         args |-> EnvironmentArgs(
             Qty(ForceToBaseUnits(R(forces[axis_idx], 1)), "force"),
             Qty(ForceToBaseUnits(
                     R(Sqrt(forces[i] * forces[i] + forces[j] * forces[j]), 1)),
                 "force"),
             Qty(MomentToBaseUnits(
                     R(Sqrt(moments[i] * moments[i] + moments[j] * moments[j]), 1)),
                 "moment"),
             Qty(R(300, 1), "temperature"), Qty(R(300, 1), "temperature"),
             Qty(R(300, 1), "temperature"), Qty(R(1000, 1), "moment"), TRUE)]

\* Environment.set_force_from_6dof(forces, moments, fastener_axis)
SetForceFrom6dof(forces, moments, fastener_axis) ==
    /\ environment = NoEnvironment
    /\ LET r == Force6dofArgs(forces, moments, fastener_axis)
           err == IF r.err # "ok" THEN r.err ELSE Validate(r.args)
       IN  environment' =
              [err |-> err, how |-> "6dof",
               call |-> [forces |-> forces, moments |-> moments,
                         fastener_axis |-> fastener_axis],
               args |-> IF r.err = "ok" THEN r.args ELSE NoneObj,
               object |-> IF err = "ok" THEN EnvironmentObject(r.args) ELSE NoneObj]
    /\ UNCHANGED <<jvars, analysis, margins, mat>>

\* what the callers pass for each of the three temperatures, and for the loads
TemperatureDims == {"temperature", "length", "none"}
ForceDims == {"force", "moment"}
MomentDims == {"moment", "force", "none"}
Tensions == {0 - 1000, 0, 1000, 2000}
Shears == {0, 500}
ForceVectors == { <<0, 0, 1000>>, <<300, 400, 0>>, <<0, 0, 0>>, <<0, 500, 0>> }

DoNewEnvironment ==
    /\ environment = NoEnvironment
    /\ \E t \in Temperatures, td \in TemperatureDims, tension \in Tensions,
          shear \in Shears, fd \in ForceDims, md \in MomentDims, q \in Torques :
          NewEnvironment(EnvironmentArgs(
              Qty(R(tension, 1), fd), Qty(R(shear, 1), fd),
              Qty(R(100000, 1), md), Qty(R(t[1], 1), td), Qty(R(t[2], 1), td),
              Qty(R(t[3], 1), td), Qty(R(q, 1), md), FALSE))

DoSetForceFrom6dof ==
    /\ environment = NoEnvironment
    /\ \E forces \in ForceVectors \cup {<<0, 1000>>},
          moments \in {<<0, 0, 0>>, <<3000, 0, 4000>>},
          axis \in {"x", "y", "z", "w"} :
          SetForceFrom6dof(forces, moments, axis)

----------------------------------------------------------------------------
(* The margin equations of NASA-STD-5020                                   *)
(* A float result is finite (an exact fraction), infinite or NaN; a float  *)
(* that is a square root is kept as the terms under the root.              *)

Finite(q) == [kind |-> "finite", v |-> q]

\* x / 0.0 when the divisor is a numpy float64: inf, -inf or nan
OverZero(x) ==
    IF Sgn(x) > 0 THEN [kind |-> "inf"]
    ELSE IF Sgn(x) < 0 THEN [kind |-> "-inf"]
    ELSE [kind |-> "nan"]

\* strength / (stress * safety_factor * fitting_factor) - 1.0
MarginOver(strength, stress, safety_factor, fitting_factor) ==
    RatSub(RatDiv(strength, RatMul(RatMul(stress, safety_factor), fitting_factor)),
           R(1, 1))

\* 1.0 / (a ** 2 + k * b ** 2) ** 0.5 - 1.0, kept as a, b and k
CombinedMargin(a, b, k) ==
    IF Sgn(a) = 0 /\ Sgn(b) = 0 THEN [kind |-> "inf"]
    ELSE [kind |-> "root", a |-> a, b |-> b, k |-> k]

\* the terms of both _calculate_ultimate_margins and _calculate_yield_margins:
\* stress_area is <<>> for None; a zero load divides by zero, which raises
\* for python floats and gives inf for numpy floats
StrengthMargins(tension_load, shear_load, tensile_strength, shear_strength, combined_shear_strength, k, safety_factor, fitting_factor, stress_area, numpy) ==
    LET tension_stress == IF stress_area # <<>>
                          THEN RatDiv(tension_load, stress_area[1])
                          ELSE tension_load
        shear_stress == IF stress_area # <<>>
                        THEN RatDiv(shear_load, stress_area[1])
                        ELSE shear_load
        factors == RatMul(safety_factor, fitting_factor)
    IN  IF ~numpy /\ (Sgn(tension_stress) = 0 \/ Sgn(shear_stress) = 0)
        THEN [err |-> "ZeroDivisionError"]
        ELSE [err |-> "ok",
              tension |-> IF Sgn(tension_stress) = 0 THEN OverZero(tensile_strength)
                          ELSE Finite(MarginOver(tensile_strength, tension_stress,
                                                 safety_factor, fitting_factor)),
              shear |-> IF Sgn(shear_stress) = 0 THEN OverZero(shear_strength)
                        ELSE Finite(MarginOver(shear_strength, shear_stress,
                                               safety_factor, fitting_factor)),
              combined |->
                 CombinedMargin(
                     RatDiv(RatMul(tension_stress, factors), tensile_strength),
                     RatDiv(RatMul(shear_stress, factors), combined_shear_strength),
                     k)]

\* _calculate_ultimate_margins
UltimateMargins(tension_load, shear_load, ultimate_tensile_strength, ultimate_shear_strength, safety_factor, fitting_factor, stress_area, numpy) ==
    StrengthMargins(tension_load, shear_load, ultimate_tensile_strength,
                    ultimate_shear_strength, ultimate_shear_strength, 1,
                    safety_factor, fitting_factor, stress_area, numpy)

\* _calculate_yield_margins: yield_shear = yield_strength * 0.577
YieldMargins(tension_load, shear_load, yield_strength, safety_factor, fitting_factor, stress_area, numpy) ==
    StrengthMargins(tension_load, shear_load, yield_strength,
                    RatMul(yield_strength, R(577, 1000)), yield_strength, 3,
                    safety_factor, fitting_factor, stress_area, numpy)

\* _calculate_slip_margin
SlipMargin(preload, shear_load, friction_coefficient, numpy) ==
    LET slip_resistance == RatMul(friction_coefficient, preload)
    IN  IF Sgn(shear_load) # 0
        THEN [err |-> "ok",
              margin |-> Finite(RatSub(RatDiv(slip_resistance, shear_load), R(1, 1)))]
        ELSE IF numpy THEN [err |-> "ok", margin |-> OverZero(slip_resistance)]
        ELSE [err |-> "ZeroDivisionError"]

\* _calculate_separation_margin (bolt_stiffness and joint_stiffness are not
\* used by the equation)
SeparationMargin(preload, external_load, safety_factor, fitting_factor, loading_plane_factor, stiffness_factor, numpy) ==
    LET bolt_load_change ==
            RatMul(RatMul(loading_plane_factor, stiffness_factor), external_load)
        interface_load == RatSub(preload, bolt_load_change)
        divisor == RatMul(RatMul(external_load, safety_factor), fitting_factor)
    IN  IF Sgn(divisor) # 0
        THEN [err |-> "ok",
              margin |-> Finite(RatSub(RatDiv(interface_load, divisor), R(1, 1)))]
        ELSE IF numpy THEN [err |-> "ok", margin |-> OverZero(interface_load)]
        ELSE [err |-> "ZeroDivisionError"]

\* the loads, strengths and factors the margin equations are called with
MarginLoads ==
    { R(0 - 2000, 1), R(0 - 1000, 1), R(0, 1), R(100, 1), R(1000, 1), R(2000, 1) }
MarginStrengths == { R(250, 1), R(400, 1) }
MarginPreloads == { R(0 - 500, 1), R(4000, 1), R(8000, 1) }
MarginAreas == { <<>>, <<R(20, 1)>> }

CallUltimateMargins ==
    /\ margins = NoMargins
    /\ mat = NewMaterial
    /\ \E tension_load \in MarginLoads, shear_load \in MarginLoads,
          tensile \in MarginStrengths, shear \in MarginStrengths,
          stress_area \in MarginAreas, numpy \in BOOLEAN :
          /\ margins' =
                [fn |-> "ultimate",
                 args |-> [tension_load |-> tension_load, shear_load |-> shear_load,
                           ultimate_tensile_strength |-> tensile,
                           ultimate_shear_strength |-> shear,
                           safety_factor |-> R(14, 10), fitting_factor |-> R(115, 100),
                           stress_area |-> stress_area, numpy |-> numpy],
                 ret |-> UltimateMargins(tension_load, shear_load, tensile, shear,
                                         R(14, 10), R(115, 100), stress_area, numpy)]
          /\ UNCHANGED <<jvars, analysis, environment, mat>>

CallYieldMargins ==
    /\ margins = NoMargins
    /\ mat = NewMaterial
    /\ \E tension_load \in MarginLoads, shear_load \in MarginLoads,
          yield \in MarginStrengths, stress_area \in MarginAreas, numpy \in BOOLEAN :
          /\ margins' =
                [fn |-> "yield",
                 args |-> [tension_load |-> tension_load, shear_load |-> shear_load,
                           yield_strength |-> yield,
                           safety_factor |-> R(12, 10), fitting_factor |-> R(115, 100),
                           stress_area |-> stress_area, numpy |-> numpy],
                 ret |-> YieldMargins(tension_load, shear_load, yield, R(12, 10),
                                      R(115, 100), stress_area, numpy)]
          /\ UNCHANGED <<jvars, analysis, environment, mat>>

CallSlipMargin ==
    /\ margins = NoMargins
    /\ mat = NewMaterial
    /\ \E preload \in MarginPreloads, shear_load \in MarginLoads,
          friction \in {R(1, 10), R(2, 10)}, numpy \in BOOLEAN :
          /\ margins' =
                [fn |-> "slip",
                 args |-> [preload |-> preload, shear_load |-> shear_load,
                           friction_coefficient |-> friction, numpy |-> numpy],
                 ret |-> SlipMargin(preload, shear_load, friction, numpy)]
          /\ UNCHANGED <<jvars, analysis, environment, mat>>

CallSeparationMargin ==
    /\ margins = NoMargins
    /\ mat = NewMaterial
    /\ \E preload \in MarginPreloads, external_load \in MarginLoads,
          n \in {R(1, 2), R(3, 4)}, phi \in {R(1, 4), R(21, 20)}, numpy \in BOOLEAN :
          /\ margins' =
                [fn |-> "separation",
                 args |-> [preload |-> preload, external_load |-> external_load,
                           safety_factor |-> R(12, 10), fitting_factor |-> R(115, 100),
                           loading_plane_factor |-> n, stiffness_factor |-> phi,
                           numpy |-> numpy],
                 ret |-> SeparationMargin(preload, external_load, R(12, 10),
                                          R(115, 100), n, phi, numpy)]
          /\ UNCHANGED <<jvars, analysis, environment, mat>>

NextMarginFns ==
    \/ CallUltimateMargins
    \/ CallYieldMargins
    \/ CallSlipMargin
    \/ CallSeparationMargin

SpecMarginFns == Init /\ [][NextMarginFns]_vars

----------------------------------------------------------------------------
(* NASA5020Analysis: the margins of a Junction in an Environment *)

\* Material.yield_strength and Material.ultimate_strength in N/mm^2, or the
\* ValueError of a property that was never set
YieldStrength(material) ==
    IF ~material.has_yield THEN [err |-> "ValueError"]
    ELSE [err |-> "ok",
          value |-> IF material.name = "Aluminium" THEN R(276, 1) ELSE R(250, 1)]

UltimateStrength(material) ==
    IF ~material.has_yield THEN [err |-> "ValueError"]
    ELSE [err |-> "ok",
          value |-> IF material.name = "Aluminium" THEN R(310, 1) ELSE R(400, 1)]

\* NASA5020Analysis.calculate_ultimate_margins; ultimate_shear_strength is
\* 0.577 * ultimate_strength
AnalysisUltimateMargins(f, e, cfg) ==
    LET strength == UltimateStrength(f.material)
    IN  IF strength.err # "ok" THEN [err |-> strength.err]
        ELSE UltimateMargins(e.tension, e.shear, strength.value,
                             RatMul(R(577, 1000), strength.value),
                             cfg.safety_factors["ultimate"], cfg.fitting_factor,
                             <<StressArea(f)>>, e.numpy)

\* NASA5020Analysis.calculate_yield_margins
AnalysisYieldMargins(f, e, cfg) ==
    LET strength == YieldStrength(f.material)
    IN  IF strength.err # "ok" THEN [err |-> strength.err]
        ELSE YieldMargins(e.tension, e.shear, strength.value,
                          cfg.safety_factors["yield"], cfg.fitting_factor,
                          <<StressArea(f)>>, e.numpy)

\* variant: the slip margin is taken from the minimum preload
SlipMarginOfMinPreload(preloads, e, cfg) ==
    IF preloads.err # "ok" THEN [err |-> preloads.err]
    ELSE SlipMargin(preloads.min_preload, e.shear,
                    cfg.friction_coefficient, e.numpy)

\* NASA5020Analysis.calculate_slip_margin
SlipMarginOf(preloads, e, cfg) ==
    IF preloads.err # "ok" THEN [err |-> preloads.err]
    ELSE SlipMargin(preloads.nominal_preload, e.shear,
                    cfg.friction_coefficient, e.numpy)

AnalysisSlipMargin(f, cc, e, cfg) ==
    SlipMarginOf(CalculatePreloadsResult(f, cc, e, cfg), e, cfg)

\* NASA5020Analysis.calculate_separation_margin: the stiffness factor holds
\* a logarithm, so for a tension other than zero the margin is kept as the
\* operands of the equation
SeparationMarginOf(k_b, k_c, n, phi, preloads, e, cfg) ==
        IF k_b.err # "ok" THEN [err |-> k_b.err]
        ELSE IF k_c.err # "ok" THEN [err |-> k_c.err]
        ELSE IF n.err # "ok" THEN [err |-> n.err]
        ELSE IF phi.err # "ok" THEN [err |-> phi.err]
        ELSE IF preloads.err # "ok" THEN [err |-> preloads.err]
        ELSE IF Sgn(e.tension) = 0
        THEN SeparationMargin(preloads.min_preload, e.tension,
                              cfg.safety_factors["separation"], cfg.fitting_factor,
                              n.n, R(1, 1), e.numpy)
        ELSE [err |-> "ok",
              margin |-> [kind |-> "operands", preload |-> preloads.min_preload,
                          external_load |-> e.tension,
                          safety_factor |-> cfg.safety_factors["separation"],
                          fitting_factor |-> cfg.fitting_factor,
                          loading_plane_factor |-> n.n,
                          stiffness_factor |-> phi.range]]

AnalysisSeparationMargin(f, m, cc, e, cfg) ==
    SeparationMarginOf(BoltStiffness(f, m, cc), JointStiffness(f, m, cc),
                       LoadingPlaneFactor(f, m, cc), StiffnessFactor(f, m, cc),
                       CalculatePreloadsResult(f, cc, e, cfg), e, cfg)

\* analysis.calculate_ultimate_margins()
CalculateUltimateMargins ==
    /\ analysis.built
    /\ analysis' = [analysis EXCEPT !.results["ultimate"] =
                       AnalysisUltimateMargins(fastener, analysis.environment,
                                               analysis.config)]
    /\ UNCHANGED <<jvars, environment, margins, mat>>

\* analysis.calculate_yield_margins()
CalculateYieldMargins ==
    /\ analysis.built
    /\ analysis' = [analysis EXCEPT !.results["yield"] =
                       AnalysisYieldMargins(fastener, analysis.environment,
                                            analysis.config)]
    /\ UNCHANGED <<jvars, environment, margins, mat>>

\* variant: the friction coefficient is capped at the 0.1 of coated surfaces
CalculateSlipMarginCapped ==
    /\ analysis.built
    /\ analysis' = [analysis EXCEPT
                       !.config.friction_coefficient =
                           RatMin(R(1, 10), analysis.config.friction_coefficient),
                       !.results["slip"] =
                           AnalysisSlipMargin(fastener, clamped_components,
                                              analysis.environment, analysis.config)]
    /\ UNCHANGED <<jvars, environment, margins, mat>>

\* analysis.calculate_slip_margin()
CalculateSlipMargin ==
    /\ analysis.built
    /\ analysis' = [analysis EXCEPT !.results["slip"] =
                       AnalysisSlipMargin(fastener, clamped_components,
                                          analysis.environment, analysis.config)]
    /\ UNCHANGED <<jvars, environment, margins, mat>>

\* analysis.calculate_separation_margin()
CalculateSeparationMargin ==
    /\ analysis.built
    /\ analysis' = [analysis EXCEPT !.results["separation"] =
                       AnalysisSeparationMargin(fastener, threaded_member,
                                                clamped_components,
                                                analysis.environment, analysis.config)]
    /\ UNCHANGED <<jvars, environment, margins, mat>>

\* the metric configurations that pass _validate_inputs, with the default
\* uncertainty fraction
MarginConfigurations ==
    { cfg \in Configurations :
         /\ ValidateInputs(TheJunction, Environment(<<300, 300, 300>>, 6000), cfg) = "ok"
         /\ cfg.unit_system = "metric"
         /\ cfg.preload_uncertainty_factor = R(25, 100) }

\* NASA5020Analysis(junction, environment, **config) on the Environment built
DoNewAnalysisOn ==
    /\ analysis = NoAnalysis
    /\ environment.err = "ok"
    /\ \E cfg \in MarginConfigurations :
          NewAnalysis(TheJunction, environment.object, cfg)

\* a metric Junction with one clamped component
InitMargins ==
    /\ constructed = TRUE
    /\ fastener \in { f \in Fasteners : f.thread_spec = M6 }
    /\ threaded_member \in { m \in ThreadedMembers : m.thread_spec = M6 }
    /\ clamped_components \in StacksUpTo(1)
    /\ InitError(fastener, clamped_components, threaded_member) = "ok"
    /\ last = Call("construct", "ok",
                   CtorArg(fastener, clamped_components, threaded_member), NoneObj)
    /\ analysis = NoAnalysis
    /\ environment = NoEnvironment
    /\ margins = NoMargins
    /\ mat = NewMaterial

NextMargins ==
    \/ DoNewEnvironment
    \/ DoSetForceFrom6dof
    \/ DoNewAnalysisOn
    \/ CalculatePreloads
    \/ CalculateUltimateMargins
    \/ CalculateYieldMargins
    \/ CalculateSlipMargin
    \/ CalculateSeparationMargin
    \/ ReadConfigurationType

SpecMargins == InitMargins /\ [][NextMargins]_vars

----------------------------------------------------------------------------
(* thread_utils: parsing and compatibility of thread specifications *)

\* "M6x1": the M6 thread with its pitch written without decimals
M6Short == <<"M", "6", "x", "1">>

\* float(token) and int(token) for the numerals of pitches and thread counts
TokenValue(tok) ==
    CASE tok = "1" -> R(1, 1)
      [] tok = "1.0" -> R(1, 1)
      [] tok = "1.25" -> R(5, 4)
      [] tok = "20" -> R(20, 1)
      [] tok = "28" -> R(28, 1)
      [] OTHER -> R(NumVal(tok), 1)

\* the tokens \d+(\.\d+)? and \d+\.?\d* match
IsNumeral(tok) ==
    tok \in {"1", "2", "3", "4", "6", "8", "1.0", "1.25", "20", "28"}

\* THREAD_SPECS[series][diameter_str], <<>> for a missing key
StandardThread(series, diameter_str) ==
    CASE series = "UNC" /\ diameter_str = <<"1", "/", "4">> -> <<R(20, 1)>>
      [] series = "UNF" /\ diameter_str = <<"1", "/", "4">> -> <<R(28, 1)>>
      [] series = "UNC" /\ diameter_str = <<"3", "/", "8">> -> <<R(16, 1)>>
      [] series = "UNF" /\ diameter_str = <<"3", "/", "8">> -> <<R(24, 1)>>
      [] series = "M" /\ diameter_str = <<"6">> -> <<R(1, 1)>>
      [] series = "M" /\ diameter_str = <<"8">> -> <<R(5, 4)>>
      [] OTHER -> <<>>

\* re.match(METRIC_PATTERN, s)
MatchesMetric(s) ==
    /\ Len(s) = 4
    /\ s[1] = "M"
    /\ IsNumeral(s[2])
    /\ s[3] = "x"
    /\ IsNumeral(s[4])

\* re.match(IMPERIAL_PATTERN, s): a diameter, "-", the thread count, one or
\* more blanks and the series
MatchesImperial(s) ==
    /\ Contains(s, "-")
    /\ LET diameter_str == SplitHead(s, "-")
           rest == SplitTail(s, "-")
       IN  /\ \/ Len(diameter_str) = 1 /\ IsNumeral(diameter_str[1])
              \/ /\ Len(diameter_str) = 3
                 /\ IsNumeral(diameter_str[1])
                 /\ diameter_str[2] = "/"
                 /\ IsNumeral(diameter_str[3])
           /\ Len(rest) >= 3
           /\ IsNumeral(rest[1])
           /\ \A i \in 2..(Len(rest) - 1) : rest[i] = " "
           /\ rest[Len(rest)] \in {"UNC", "UNF"}

\* parse_thread_specification: the ThreadInfo, or the ValueError raised
ParseThreadSpecification(spec) ==
    LET s == Strip(spec, " ")
    IN  IF MatchesMetric(s)
        THEN LET standard == StandardThread("M", <<s[2]>>)
             IN  IF standard = <<>> THEN [err |-> "ValueError"]
                 ELSE IF RatLt(R(1, 1000),
                               RatAbs(RatSub(TokenValue(s[4]), standard[1])))
                 THEN [err |-> "ValueError"]
                 ELSE [err |-> "ok", nominal_diameter |-> TokenValue(s[2]),
                       series |-> "M", is_metric |-> TRUE,
                       threads_per_inch |-> <<>>,
                       thread_pitch |-> <<TokenValue(s[4])>>]
        ELSE IF ~MatchesImperial(s) THEN [err |-> "ValueError"]
        ELSE LET diameter_str == SplitHead(s, "-")
                 tpi_str == SplitTail(s, "-")[1]
                 series == s[Len(s)]
                 standard == StandardThread(series, diameter_str)
             IN  IF standard = <<>> THEN [err |-> "ValueError"]
                 ELSE IF TokenValue(tpi_str) # standard[1] THEN [err |-> "ValueError"]
                 ELSE [err |-> "ok",
                       nominal_diameter |->
                          IF Contains(diameter_str, "/")
                          THEN RatDiv(TokenValue(diameter_str[1]),
                                      TokenValue(diameter_str[3]))
                          ELSE TokenValue(diameter_str[1]),
                       series |-> series, is_metric |-> FALSE,
                       threads_per_inch |-> <<TokenValue(tpi_str)>>,
                       thread_pitch |-> <<>>]

\* variant: two specifications are compatible when they are the same string
AreThreadsCompatibleSameString(spec1, spec2) == spec1 = spec2

\* are_threads_compatible
AreThreadsCompatible(spec1, spec2) ==
    LET info1 == ParseThreadSpecification(spec1)
        info2 == ParseThreadSpecification(spec2)
    IN  IF info1.err # "ok" \/ info2.err # "ok" THEN FALSE
        ELSE IF info1.is_metric # info2.is_metric THEN FALSE
        ELSE IF info1.is_metric
        THEN /\ RatLt(RatAbs(RatSub(info1.nominal_diameter, info2.nominal_diameter)),
                      R(1, 1000))
             /\ RatLt(RatAbs(RatSub(info1.thread_pitch[1], info2.thread_pitch[1])),
                      R(1, 1000))
        ELSE /\ RatLt(RatAbs(RatSub(info1.nominal_diameter, info2.nominal_diameter)),
                      R(1, 10000))
             /\ info1.threads_per_inch = info2.threads_per_inch
             /\ info1.series = info2.series

\* the thread specifications that ThreadedComponent.__init__ parses
\* without raising
ThreadSpecs ==
    { s \in {UNC14, UNF14, M6, M6Short} : ParseThreadSpecification(s).err = "ok" }

ThreadFasteners ==
    { [cls |-> "Fastener", thread_spec |-> s, length |-> l,
       threaded_length |-> In16(4), head_diameter |-> In16(6),
       head_height |-> In16(3), is_flat |-> FALSE, material |-> Steel] :
         s \in ThreadSpecs, l \in {In16(8), In16(16)} }

ThreadNuts ==
    { [cls |-> "Nut", thread_spec |-> s, threaded_length |-> In16(4),
       material |-> Steel] : s \in ThreadSpecs }

DoConstructThreads ==
    /\ last.op = "none"
    /\ \E f \in ThreadFasteners, m \in ThreadNuts, cc \in StacksUpTo(1) :
          Construct(f, cc, m)

DoSetFastenerThreads == constructed /\ \E f \in ThreadFasteners : SetFastener(f)

DoSetThreadedMemberThreads == constructed /\ \E m \in ThreadNuts : SetThreadedMember(m)

NextThreads ==
    \/ DoConstructThreads
    \/ DoSetFastenerThreads
    \/ DoSetThreadedMemberThreads

SpecThreads == Init /\ [][NextThreads]_vars

----------------------------------------------------------------------------
(* Material: yield and ultimate strength                                   *)
(* An assigned value is a pint Quantity (a float magnitude with a unit) or *)
(* a bare number (unit "none"); the strengths are stored in pascal.        *)

NaN == [kind |-> "nan"]

\* float comparisons of Python: every comparison with nan is False
FloatLE(x, y) == x.kind = "finite" /\ y.kind = "finite" /\ RatLeq(x.v, y.v)

FloatGE(x, y) == FloatLE(y, x)

\* Quantity.to('Pa'): the magnitude in pascal, or the DimensionalityError
ToPa(value) ==
    CASE value.unit = "Pa" -> [err |-> "ok", magnitude |-> value.magnitude]
      [] value.unit = "kPa" ->
           [err |-> "ok",
            magnitude |-> IF value.magnitude.kind = "finite"
                          THEN Finite(RatMul(R(1000, 1), value.magnitude.v))
                          ELSE value.magnitude]
      [] OTHER -> [err |-> "DimensionalityError"]

\* Material._validate_stress_units
ValidateStressUnits(value) ==
    IF value.unit = "none" THEN [err |-> "TypeError"]
    ELSE IF ToPa(value).err # "ok" THEN [err |-> "TypeError"]
    ELSE ToPa(value)

\* Material._validate_positive
ValidatePositive(magnitude) ==
    IF FloatLE(magnitude, Finite(R(0, 1))) THEN "ValueError" ELSE "ok"

\* what the yield_strength setter does with a value: the exception or "ok"
YieldStrengthError(value) ==
    LET value_pa == ValidateStressUnits(value)
    IN  IF value_pa.err # "ok" THEN value_pa.err
        ELSE IF ValidatePositive(value_pa.magnitude) # "ok" THEN "ValueError"
        ELSE IF /\ mat.ultimate_strength.kind # "None"
                /\ FloatGE(value_pa.magnitude, mat.ultimate_strength)
        THEN "ValueError"
        ELSE "ok"

\* material.yield_strength = value
SetYieldStrength(value) ==
    LET err == YieldStrengthError(value)
    IN  /\ mat' = [mat EXCEPT
                     !.yield_strength =
                        IF err = "ok" THEN ValidateStressUnits(value).magnitude
                        ELSE @,
                     !.op = "yield_strength", !.arg = value, !.err = err]
        /\ UNCHANGED <<jvars, analysis, environment, margins>>

\* material.ultimate_strength = value
SetUltimateStrength(value) ==
    LET value_pa == ValidateStressUnits(value)
        err == IF value_pa.err # "ok" THEN value_pa.err
               ELSE IF ValidatePositive(value_pa.magnitude) # "ok" THEN "ValueError"
               ELSE IF /\ mat.yield_strength.kind # "None"
                       /\ FloatLE(value_pa.magnitude, mat.yield_strength)
               THEN "ValueError"
               ELSE "ok"
    IN  /\ mat' = [mat EXCEPT
                     !.ultimate_strength =
                        IF err = "ok" THEN value_pa.magnitude ELSE @,
                     !.op = "ultimate_strength", !.arg = value, !.err = err]
        /\ UNCHANGED <<jvars, analysis, environment, margins>>

\* the values a caller assigns: finite floats and nan, in pascal, in
\* kilopascal, in metres, or without a unit
StressValues ==
    { [magnitude |-> x, unit |-> u] :
         x \in { Finite(R(n, 1)) : n \in {0 - 1, 0, 1, 2, 3} } \cup {NaN},
         u \in {"Pa", "kPa", "m", "none"} }

DoSetYieldStrength == \E value \in StressValues : SetYieldStrength(value)

DoSetUltimateStrength == \E value \in StressValues : SetUltimateStrength(value)

NextMaterial == DoSetYieldStrength \/ DoSetUltimateStrength

SpecMaterial == Init /\ [][NextMaterial]_vars

----------------------------------------------------------------------------
(* Properties *)

\* the exception type behind an outcome: list.pop raises IndexError, every
\* other failure of a Junction method is a ValueError
ErrType(err) ==
    IF err = "ok" THEN "none" ELSE IF err = "index" THEN "IndexError" ELSE "ValueError"

Parts == <<fastener, threaded_member, clamped_components>>

\* C1: when add_clamped_component raises because the assembly fails
\* validation after the append, the clamped component list is the list held
\* before the call (and so is the grip length).
C1_AddRollsBack ==
    [][(last'.op = "add" /\ last'.err \notin {"ok", "type"})
          => /\ clamped_components' = clamped_components
             /\ GripLength(clamped_components') = GripLength(clamped_components)]_vars

\* C2: in every state of a constructed Junction, whatever methods were
\* called and however they ended, the fastener length strictly exceeds the
\* stack-up thickness plus the nut height when the member is a nut; and a
\* construction with a length equal to the required length is rejected.
C2_LengthExceedsRequired ==
    /\ constructed =>
          fastener.length > StackUpThickness(threaded_member, clamped_components)
                            + (IF threaded_member.cls = "Nut"
                               THEN Height(threaded_member) ELSE 0)
    /\ (/\ last.op = "construct"
        /\ IsFastener(last.arg.fastener)
        /\ IsThreadedMember(last.arg.threaded_member)
        /\ last.arg.fastener.length =
              RequiredLength(last.arg.threaded_member, last.arg.clamped_components))
          => ~constructed

\* C3: a set_fastener or set_threaded_member call that raises leaves the
\* fastener, the threaded member and the clamped stack as they were; one
\* that returns leaves the new part held and the assembly passing validation.
C3_SetterReplacesOrRejects ==
    [][(last'.op \in {"set_fastener", "set_threaded_member"})
          => IF last'.err # "ok"
             THEN Parts' = Parts
             ELSE /\ last'.op = "set_fastener" => fastener' = last'.arg
                  /\ last'.op = "set_threaded_member" => threaded_member' = last'.arg
                  /\ clamped_components' = clamped_components
                  /\ ValidateAssembly(fastener', threaded_member',
                                      clamped_components') = "ok"]_vars

\* a set_fastener call has raised on a fastener that fails validation
C3_Witness ==
    /\ last.op = "set_fastener"
    /\ last.err \notin {"ok", "type"}
    /\ last.arg # fastener

\* C4: no step of a constructed Junction changes the fastener or the
\* threaded member into a pair that fails the assembly validation.
C4_PartsChangeOnlyValidated ==
    [][(constructed' /\ <<fastener, threaded_member>>' # <<fastener, threaded_member>>)
          => ValidateAssembly(fastener', threaded_member', clamped_components') = "ok"]_vars

\* C5: no component instance appears twice in the clamped stack.
C5_NoDuplicateInstances ==
    \A i, j \in 1..Len(clamped_components) :
        clamped_components[i] = clamped_components[j] => i = j

\* the classification table of the joint configurations
Classification(is_flat, is_plate) ==
    IF is_flat /\ is_plate THEN "FLAT_HEAD_THREADED"
    ELSE IF is_flat THEN "FLAT_HEAD_THROUGH"
    ELSE IF is_plate THEN "THREADED_END"
    ELSE "THROUGH_BOLT"

\* C6: configuration_type is the table's entry for (fastener built flat or
\* not, threaded member a threaded plate or a nut).
C6_ConfigurationTable ==
    constructed =>
        ConfigurationType(fastener, threaded_member)
            = Classification(fastener.is_flat, threaded_member.cls = "ThreadedPlate")

\* C7: a constructed Junction always holds at least one clamped component:
\* construction with an empty list raises, and remove_clamped_component on a
\* stack of one raises ValueError and leaves the stack as it was.
C7_AtLeastOneComponent ==
    [][/\ constructed' => Len(clamped_components') >= 1
       /\ (last'.op = "construct" /\ last'.arg.clamped_components = <<>>)
             => ~constructed' /\ ErrType(last'.err) = "ValueError"
       /\ (last'.op = "remove" /\ Len(clamped_components) = 1)
             => /\ ErrType(last'.err) = "ValueError"
                /\ clamped_components' = clamped_components]_vars

\* remove_clamped_component has raised on a stack of one component
C7_Witness ==
    /\ last.op = "remove"
    /\ last.err = "last"
    /\ Len(clamped_components) = 1

\* C8: the held fastener and threaded member have equal thread
\* specifications, and a construction or replacement with different
\* specifications raises.
C8_ThreadSpecsMatch ==
    /\ constructed => fastener.thread_spec = threaded_member.thread_spec
    /\ (/\ last.op = "construct"
        /\ IsFastener(last.arg.fastener)
        /\ IsThreadedMember(last.arg.threaded_member)
        /\ last.arg.fastener.thread_spec # last.arg.threaded_member.thread_spec)
          => ~constructed /\ ErrType(last.err) = "ValueError"
    /\ (/\ last.op = "set_fastener"
        /\ IsFastener(last.arg)
        /\ last.arg.thread_spec # threaded_member.thread_spec)
          => ErrType(last.err) = "ValueError"
    /\ (/\ last.op = "set_threaded_member"
        /\ IsThreadedMember(last.arg)
        /\ last.arg.thread_spec # fastener.thread_spec)
          => ErrType(last.err) = "ValueError"

\* a 1/4-28 UNF fastener was refused on a Junction holding a 1/4-20 UNC member
C8_Witness ==
    /\ last.op = "set_fastener"
    /\ IsFastener(last.arg)
    /\ last.arg.thread_spec = UNF14
    /\ threaded_member.thread_spec = UNC14
    /\ last.err # "ok"

\* min(fastener.threaded_length, member.threaded_length) >= 0.5 * the
\* fastener's nominal diameter (engagement in ticks, diameter in mm)
EngagementSufficient(f, m) ==
    RatLeq(RatMul(R(1, 2), ParsedNominalDiameter(f.thread_spec)),
           R(Min(f.threaded_length, m.threaded_length), 80))

\* C9: the thread engagement of the held parts is at least half the
\* fastener's nominal diameter, and a construction or replacement with a
\* shorter engagement raises even when the fastener is long enough.
C9_EngagementSufficient ==
    /\ constructed => EngagementSufficient(fastener, threaded_member)
    /\ (/\ last.op = "construct"
        /\ IsFastener(last.arg.fastener)
        /\ IsThreadedMember(last.arg.threaded_member)
        /\ ~EngagementSufficient(last.arg.fastener, last.arg.threaded_member))
          => ~constructed /\ ErrType(last.err) = "ValueError"
    /\ (/\ last.op = "set_fastener"
        /\ IsFastener(last.arg)
        /\ ~EngagementSufficient(last.arg, threaded_member))
          => ErrType(last.err) = "ValueError"
    /\ (/\ last.op = "set_threaded_member"
        /\ IsThreadedMember(last.arg)
        /\ ~EngagementSufficient(fastener, last.arg))
          => ErrType(last.err) = "ValueError"

\* a construction was refused for its engagement alone: the specifications
\* match and the fastener is longer than the required length
C9_Witness ==
    /\ last.op = "construct"
    /\ last.err = "engagement"
    /\ ~EngagementSufficient(last.arg.fastener, last.arg.threaded_member)
    /\ last.arg.fastener.length >
          RequiredLength(last.arg.threaded_member, last.arg.clamped_components)

\* C10: whenever calculate_preloads returns, min_preload <= nominal_preload
\* <= max_preload.
C10_PreloadsOrdered ==
    (analysis.built /\ analysis.preloads.err = "ok")
        => /\ RatLeq(analysis.preloads.min_preload, analysis.preloads.nominal_preload)
           /\ RatLeq(analysis.preloads.nominal_preload, analysis.preloads.max_preload)

\* C11: after a set_fastener or set_threaded_member call that returns,
\* configuration_type is the table's classification of the parts now held
\* (flat head or not, threaded plate or nut); after one that raises,
\* configuration_type is what it was before the call.
C11_ReclassifiedOnReplace ==
    [][(last'.op \in {"set_fastener", "set_threaded_member"})
          => IF last'.err = "ok"
             THEN ConfigurationType(fastener', threaded_member')
                     = Classification(fastener'.is_flat,
                                      threaded_member'.cls = "ThreadedPlate")
             ELSE ConfigurationType(fastener', threaded_member')
                     = ConfigurationType(fastener, threaded_member)]_vars

\* the stack a remove_clamped_component(index) call that returned component
\* was made on, given the stack it left
BeforeRemoval(stack, index, component) ==
    LET p == IF index < 0 THEN index + Len(stack) + 2 ELSE index + 1
    IN  SubSeq(stack, 1, p - 1) \o <<component>> \o SubSeq(stack, p, Len(stack))

\* C18: on a valid Junction, removing a component and adding the same
\* component again gives the grip length and the stack-up thickness held
\* before the removal; adding a component and removing it at the index it
\* was added at returns that component and leaves the stack held before the
\* addition.
C18_RemoveAddRoundTrip ==
    [][/\ (/\ last.op = "remove" /\ last.err = "ok"
           /\ last'.op = "add" /\ last'.arg = last.ret)
             => LET before == BeforeRemoval(clamped_components, last.arg.value,
                                            last.ret)
                IN  ValidateAssembly(fastener, threaded_member, before) = "ok"
                      => /\ GripLength(clamped_components') = GripLength(before)
                         /\ StackUpThickness(threaded_member', clamped_components')
                               = StackUpThickness(threaded_member, before)
       /\ (/\ last.op = "add" /\ last.err # "type"
           /\ last'.op = "remove"
           /\ last'.arg.value = Len(clamped_components) - 1)
             => LET before == SubSeq(clamped_components, 1,
                                     Len(clamped_components) - 1)
                IN  ValidateAssembly(fastener, threaded_member, before) = "ok"
                      => /\ last'.err = "ok"
                         /\ last'.ret = last.arg
                         /\ clamped_components' = before]_vars

\* a component was added to a valid stack of two and removed again at the
\* index it was added at
C18_Witness ==
    /\ last.op = "remove"
    /\ last.err = "ok"
    /\ last.arg.value = Len(clamped_components)
    /\ Len(clamped_components) = 2
    /\ ValidateAssembly(fastener, threaded_member, clamped_components) = "ok"

\* C13: on a Junction that passes the assembly validation,
\* calculate_loading_plane_factor returns n with 0 < n <= 1.
C13_LoadingPlaneFactorRange ==
    (/\ last.op = "calculate_loading_plane_factor"
     /\ ValidateAssembly(fastener, threaded_member, clamped_components) = "ok")
       => /\ last.err = "ok"
          /\ RatLt(R(0, 1), last.ret.n)
          /\ RatLeq(last.ret.n, R(1, 1))

\* the geometry is physically valid: the fastener is thinner than its head
\* and every clamped component has a positive thickness
PhysicallyValid(f, cc) ==
    /\ RatLt(ParsedNominalDiameter(f.thread_spec), MmOf(f.head_diameter))
    /\ \A i \in 1..Len(cc) : cc[i].thickness > 0

\* C14: on a physically valid geometry calculate_stiffness_factor returns a
\* value strictly between 0 and 1.
C14_StiffnessFactorRange ==
    (/\ last.op = "calculate_stiffness_factor"
     /\ PhysicallyValid(fastener, clamped_components))
       => /\ last.err = "ok"
          /\ last.ret.range = "(0,1)"

\* the logarithm of the joint stiffness formula has no positive argument
LogArgumentNonPositive(f, m, cc) ==
    LET arg == LogArgument(f, m, cc)
    IN  Sgn(arg[1]) * Sgn(arg[2]) <= 0

\* C19: when the logarithm argument of the joint stiffness formula is not
\* positive, calculate_joint_stiffness raises, and raises an error of a
\* type of its own, not one of the types the validations raise.
C19_InvalidGeometryError ==
    (/\ last.op = "calculate_joint_stiffness"
     /\ LogArgumentNonPositive(fastener, threaded_member, clamped_components))
       => last.err \notin {"ok", "ValueError", "TypeError"}

\* the configuration is out of range: unit system, friction coefficient,
\* safety factors or fitting factor
OutOfRange(cfg) ==
    \/ cfg.unit_system \notin {"metric", "imperial"}
    \/ ~RatLt(R(0, 1), cfg.friction_coefficient)
    \/ RatLt(R(1, 1), cfg.friction_coefficient)
    \/ \E k \in {"ultimate", "yield", "separation"} :
          \/ k \notin DOMAIN cfg.safety_factors
          \/ ~RatLt(R(1, 1), cfg.safety_factors[k])
    \/ RatLt(cfg.fitting_factor, R(1, 1))

\* C15: a NASA5020Analysis construction with an out-of-range configuration
\* raises and yields no analysis object, and one with a junction or an
\* environment of the wrong type raises TypeError.
C15_ConstructionValidates ==
    analysis # NoAnalysis
       => /\ OutOfRange(analysis.config)
                => ~analysis.built /\ analysis.err # "ok"
          /\ (analysis.junction.cls # "Junction"
              \/ analysis.environment.cls # "Environment")
                => ~analysis.built /\ analysis.err = "TypeError"

\* a construction on a Junction and an Environment was refused for a yield
\* safety factor of 1.0 alone
C15_Witness ==
    /\ analysis # NoAnalysis
    /\ analysis.junction = TheJunction
    /\ analysis.environment.cls = "Environment"
    /\ analysis.config.unit_system = "metric"
    /\ analysis.config.friction_coefficient = R(2, 10)
    /\ analysis.config.fitting_factor = R(1, 1)
    /\ DOMAIN analysis.config.safety_factors = {"ultimate", "yield", "separation"}
    /\ analysis.config.safety_factors["yield"] = R(1, 1)
    /\ analysis.err = "ValueError"
    /\ ~analysis.built

\* x <= y on float results; a NaN is not compared
FloatLeq(x, y) ==
    CASE x.kind = "nan" \/ y.kind = "nan" -> TRUE
      [] x.kind = "-inf" \/ y.kind = "inf" -> TRUE
      [] x.kind = "inf" \/ y.kind = "-inf" -> FALSE
      [] x.kind = "finite" /\ y.kind = "finite" -> RatLeq(x.v, y.v)
      [] x.kind = "root" /\ y.kind = "root" ->
           RatLeq(RatAdd(RatMul(y.a, y.a), RatMul(R(y.k, 1), RatMul(y.b, y.b))),
                  RatAdd(RatMul(x.a, x.a), RatMul(R(x.k, 1), RatMul(x.b, x.b))))
      [] OTHER -> TRUE

\* every margin of result r is at most the same margin of result s
MarginsLeq(r, s) ==
    (r.err = "ok" /\ s.err = "ok")
       => \A field \in DOMAIN r \ {"err"} : FloatLeq(r[field], s[field])

\* a load of at least the magnitude of load
Heavier(load) == { l \in MarginLoads : RatLeq(RatAbs(load), RatAbs(l)) }

\* a strength of at least strength
Stronger(strength, set) == { x \in set : RatLeq(strength, x) }

\* C17: with the other inputs fixed, no margin grows when the magnitude of
\* the applied load grows, and none shrinks when the allowable strength (for
\* slip and separation: the preload) grows.
C17_MarginsMonotone ==
    LET a == margins.args
        r == margins.ret
    IN  /\ margins.fn = "ultimate" =>
              /\ \A l \in Heavier(a.tension_load) :
                    MarginsLeq(UltimateMargins(l, a.shear_load,
                        a.ultimate_tensile_strength, a.ultimate_shear_strength,
                        a.safety_factor, a.fitting_factor, a.stress_area, a.numpy), r)
              /\ \A l \in Heavier(a.shear_load) :
                    MarginsLeq(UltimateMargins(a.tension_load, l,
                        a.ultimate_tensile_strength, a.ultimate_shear_strength,
                        a.safety_factor, a.fitting_factor, a.stress_area, a.numpy), r)
              /\ \A x \in Stronger(a.ultimate_tensile_strength, MarginStrengths) :
                    MarginsLeq(r, UltimateMargins(a.tension_load, a.shear_load,
                        x, a.ultimate_shear_strength,
                        a.safety_factor, a.fitting_factor, a.stress_area, a.numpy))
              /\ \A x \in Stronger(a.ultimate_shear_strength, MarginStrengths) :
                    MarginsLeq(r, UltimateMargins(a.tension_load, a.shear_load,
                        a.ultimate_tensile_strength, x,
                        a.safety_factor, a.fitting_factor, a.stress_area, a.numpy))
        /\ margins.fn = "yield" =>
              /\ \A l \in Heavier(a.tension_load) :
                    MarginsLeq(YieldMargins(l, a.shear_load, a.yield_strength,
                        a.safety_factor, a.fitting_factor, a.stress_area, a.numpy), r)
              /\ \A l \in Heavier(a.shear_load) :
                    MarginsLeq(YieldMargins(a.tension_load, l, a.yield_strength,
                        a.safety_factor, a.fitting_factor, a.stress_area, a.numpy), r)
              /\ \A x \in Stronger(a.yield_strength, MarginStrengths) :
                    MarginsLeq(r, YieldMargins(a.tension_load, a.shear_load, x,
                        a.safety_factor, a.fitting_factor, a.stress_area, a.numpy))
        /\ margins.fn = "slip" =>
              /\ \A l \in Heavier(a.shear_load) :
                    MarginsLeq(SlipMargin(a.preload, l, a.friction_coefficient,
                                          a.numpy), r)
              /\ \A x \in Stronger(a.preload, MarginPreloads) :
                    MarginsLeq(r, SlipMargin(x, a.shear_load,
                                             a.friction_coefficient, a.numpy))
        /\ margins.fn = "separation" =>
              /\ \A l \in Heavier(a.external_load) :
                    MarginsLeq(SeparationMargin(a.preload, l, a.safety_factor,
                        a.fitting_factor, a.loading_plane_factor,
                        a.stiffness_factor, a.numpy), r)
              /\ \A x \in Stronger(a.preload, MarginPreloads) :
                    MarginsLeq(r, SeparationMargin(x, a.external_load,
                        a.safety_factor, a.fitting_factor, a.loading_plane_factor,
                        a.stiffness_factor, a.numpy))

\* C16: calculate_slip_margin on a shear load of zero and
\* calculate_separation_margin on a tension of zero raise; they return no
\* margin, however the Environment was built.
C16_ZeroLoadRaises ==
    analysis.built
       => /\ (/\ analysis.results["slip"].err # "none"
              /\ Sgn(analysis.environment.shear) = 0)
                => analysis.results["slip"].err # "ok"
          /\ (/\ analysis.results["separation"].err # "none"
              /\ Sgn(analysis.environment.tension) = 0)
                => analysis.results["separation"].err # "ok"

\* C20: an Environment construction raises ValueError when a temperature is
\* not a temperature or not above absolute zero, tension or shear is not a
\* force, bending or preload torque is not a moment, or the preload torque
\* is not above zero; otherwise it returns the Environment of its arguments.
C20_EnvironmentValidated ==
    (environment # NoEnvironment /\ environment.args # NoneObj)
       => LET a == environment.args
              bad == \/ \E t \in {a.min_temp, a.nom_temp, a.max_temp} :
                           t.dim # "temperature" \/ Sgn(t.value) <= 0
                     \/ a.tension.dim # "force"
                     \/ a.shear.dim # "force"
                     \/ a.bending.dim # "moment"
                     \/ a.preload_torque.dim # "moment"
                     \/ Sgn(a.preload_torque.value) <= 0
          IN  IF bad
              THEN environment.err = "ValueError" /\ environment.object = NoneObj
              ELSE /\ environment.err = "ok"
                   /\ environment.object.cls = "Environment"
                   /\ environment.object.preload_torque = a.preload_torque.value
                   /\ environment.object.min_temp = a.min_temp.value
                   /\ environment.object.nom_temp = a.nom_temp.value
                   /\ environment.object.max_temp = a.max_temp.value

\* a construction with a preload torque of zero, and nothing else wrong, raised
C20_Witness ==
    /\ environment # NoEnvironment
    /\ environment.how = "direct"
    /\ environment.err = "ValueError"
    /\ environment.args.preload_torque = Qty(R(0, 1), "moment")
    /\ environment.args.bending.dim = "moment"
    /\ environment.args.tension.dim = "force"
    /\ \A t \in {environment.args.min_temp, environment.args.nom_temp,
                 environment.args.max_temp} :
          t.dim = "temperature" /\ Sgn(t.value) > 0

\* C12: a calculate_* call of the analysis and a read of
\* Junction.configuration_type leave the Junction, the Environment and the
\* configuration as they were; a margin or preload once returned is
\* returned again by a later call, and the classification read twice in a
\* row is the same value.
C12_CalculationsArePure ==
    [][/\ (analysis.built /\ analysis' # analysis)
            => /\ <<fastener, threaded_member, clamped_components>>' =
                     <<fastener, threaded_member, clamped_components>>
               /\ environment' = environment
               /\ analysis'.junction = analysis.junction
               /\ analysis'.environment = analysis.environment
               /\ analysis'.config = analysis.config
               /\ \A op \in DOMAIN analysis.results :
                     analysis.results[op].err # "none"
                        => analysis'.results[op] = analysis.results[op]
               /\ analysis.preloads # NoPreloads
                     => analysis'.preloads = analysis.preloads
       /\ (last'.op = "configuration_type" /\ last' # last)
            => /\ <<fastener, threaded_member, clamped_components>>' =
                     <<fastener, threaded_member, clamped_components>>
               /\ environment' = environment
               /\ analysis' = analysis
               /\ last.op = "configuration_type" => last'.ret = last.ret
      ]_vars

\* every calculation has returned and the classification has been read
C12_Witness ==
    /\ analysis.built
    /\ analysis.preloads # NoPreloads
    /\ \A op \in DOMAIN analysis.results : analysis.results[op].err = "ok"
    /\ last.op = "configuration_type"

C27_ConstructionIffValid ==
    (/\ last.op = "construct"
     /\ IsFastener(last.arg.fastener)
     /\ IsThreadedMember(last.arg.threaded_member))
       => (last.err = "ok"
             <=> ValidateAssembly(last.arg.fastener, last.arg.threaded_member,
                                  last.arg.clamped_components) = "ok")

\* a construction from three components has succeeded
C27_Witness ==
    /\ last.op = "construct"
    /\ last.err = "ok"
    /\ Len(last.arg.clamped_components) = 3
    /\ clamped_components = last.arg.clamped_components

\* C28: on a Junction that passes validation and holds at least two
\* clamped components, remove_clamped_component with an index in range
\* (negative ones included) returns the component at that index and leaves
\* the other components, one fewer, in their order.
C28_RemoveFromValidSucceeds ==
    [][(/\ last'.op = "remove"
        /\ ValidateAssembly(fastener, threaded_member, clamped_components) = "ok"
        /\ Len(clamped_components) >= 2
        /\ 0 - Len(clamped_components) <= last'.arg.value
        /\ last'.arg.value < Len(clamped_components))
          => LET n == Len(clamped_components)
                 i == last'.arg.value
                 at == IF i < 0 THEN n + i + 1 ELSE i + 1
             IN  /\ last'.err = "ok"
                 /\ last'.ret = clamped_components[at]
                 /\ Len(clamped_components') = n - 1
                 /\ \A k \in 1..(n - 1) :
                       clamped_components'[k] =
                          IF k < at THEN clamped_components[k]
                          ELSE clamped_components[k + 1]]_vars

\* a removal by a negative index has returned the middle one of three
\* components
C28_Witness ==
    /\ last.op = "remove"
    /\ last.err = "ok"
    /\ last.arg.value = 0 - 2
    /\ Len(clamped_components) = 2
    /\ ValidateAssembly(fastener, threaded_member, clamped_components) = "ok"

\* C29: for a Junction that passes the assembly validation, the effective
\* length L of _get_configuration_parameters, which calculate_bolt_stiffness
\* has just divided by, is strictly positive in every configuration.
C29_EffectiveLengthPositive ==
    (/\ constructed
     /\ last.op = "calculate_bolt_stiffness"
     /\ ValidateAssembly(fastener, threaded_member, clamped_components) = "ok")
       => Sgn(GetConfigurationParameters(fastener, threaded_member,
                                         clamped_components).L) > 0

\* C24: with a positive nut factor and an uncertainty fraction u in [0, 1],
\* and min_temp = nom_temp = max_temp, calculate_preloads returns
\* max_preload = (1 + u) * P0 and min_preload = (1 - u) * P0 around the
\* nominal preload P0, so max - nominal equals nominal - min.
C24_SymmetricUncertainty ==
    (/\ analysis.built
     /\ analysis.preloads # NoPreloads
     /\ analysis.preloads.err = "ok"
     /\ Sgn(analysis.config.nut_factor) > 0
     /\ Sgn(analysis.config.preload_uncertainty_factor) >= 0
     /\ RatLeq(analysis.config.preload_uncertainty_factor, R(1, 1))
     /\ analysis.environment.min_temp = analysis.environment.nom_temp
     /\ analysis.environment.max_temp = analysis.environment.nom_temp)
       => LET u == analysis.config.preload_uncertainty_factor
              P0 == analysis.preloads.nominal_preload
          IN  /\ analysis.preloads.max_preload = RatMul(RatAdd(R(1, 1), u), P0)
              /\ analysis.preloads.min_preload = RatMul(RatSub(R(1, 1), u), P0)
              /\ RatSub(analysis.preloads.max_preload, P0) =
                    RatSub(P0, analysis.preloads.min_preload)

\* 1.0 / (a ** 2 + k * b ** 2) ** 0.5 - 1.0 <= q for the float kept as a, b
\* and k
RootLeqFinite(r, q) ==
    LET q1 == RatAdd(q, R(1, 1))
        x == RatMul(q1, r.a)
        y == RatMul(q1, r.b)
    IN  /\ Sgn(q1) > 0
        /\ RatLeq(R(1, 1), RatAdd(RatMul(x, x), RatMul(R(r.k, 1), RatMul(y, y))))

\* C30: for tension and shear loads above zero, the combined margin of
\* _calculate_ultimate_margins and of _calculate_yield_margins is at most
\* the tension margin and at most the shear margin of the same result.
C30_CombinedAtMostSmaller ==
    (/\ margins.fn \in {"ultimate", "yield"}
     /\ Sgn(margins.args.tension_load) > 0
     /\ Sgn(margins.args.shear_load) > 0
     /\ margins.ret.err = "ok")
       => /\ RootLeqFinite(margins.ret.combined, margins.ret.tension.v)
          /\ RootLeqFinite(margins.ret.combined, margins.ret.shear.v)

\* C25: the slip margin is mu * P_nominal / shear - 1 on the nominal preload
\* of calculate_preloads; the separation margin is taken of the minimum
\* preload, the tension, the separation safety factor, the fitting factor
\* and the loading plane factor n and stiffness factor the Junction returns,
\* and for a stiffness factor Phi it is
\* (P_min - n * Phi * T) / (T * FS * FF) - 1.
C25_MarginsFromPreloads ==
    analysis.built
       => LET e == analysis.environment
              cfg == analysis.config
              preloads == CalculatePreloadsResult(fastener, clamped_components, e, cfg)
              slip == analysis.results["slip"]
              sep == analysis.results["separation"]
              FS == cfg.safety_factors["separation"]
              FF == cfg.fitting_factor
          IN  /\ (slip.err = "ok" /\ Sgn(e.shear) # 0)
                    => slip.margin =
                          Finite(RatSub(RatDiv(RatMul(cfg.friction_coefficient,
                                                      preloads.nominal_preload),
                                               e.shear),
                                        R(1, 1)))
              /\ (sep.err = "ok" /\ Sgn(e.tension) # 0)
                    => /\ sep.margin.preload = preloads.min_preload
                       /\ sep.margin.external_load = e.tension
                       /\ sep.margin.safety_factor = FS
                       /\ sep.margin.fitting_factor = FF
                       /\ sep.margin.loading_plane_factor =
                             LoadingPlaneFactor(fastener, threaded_member,
                                                clamped_components).n
                       /\ sep.margin.stiffness_factor =
                             StiffnessFactor(fastener, threaded_member,
                                             clamped_components).range
                       /\ \A Phi \in {R(1, 4), R(1, 2), R(3, 2)} :
                             SeparationMargin(sep.margin.preload, e.tension, FS, FF,
                                              sep.margin.loading_plane_factor, Phi,
                                              e.numpy).margin =
                                Finite(RatSub(
                                    RatDiv(RatSub(preloads.min_preload,
                                                  RatMul(RatMul(
                                                      sep.margin.loading_plane_factor,
                                                      Phi), e.tension)),
                                           RatMul(RatMul(e.tension, FS), FF)),
                                    R(1, 1)))

\* both margins have been returned for loads other than zero, with a
\* minimum preload other than the nominal one
C25_Witness ==
    /\ analysis.built
    /\ analysis.results["slip"].err = "ok"
    /\ analysis.results["separation"].err = "ok"
    /\ Sgn(analysis.environment.shear) > 0
    /\ Sgn(analysis.environment.tension) > 0
    /\ analysis.results["separation"].margin.preload #
          CalculatePreloadsResult(fastener, clamped_components,
                                  analysis.environment,
                                  analysis.config).nominal_preload

\* C26: a construction or a replacement passes the Junction's thread check
\* exactly when are_threads_compatible holds for the thread specifications
\* of the fastener and the threaded member.
C26_ThreadCheckIsCompatibility ==
    /\ (last.op = "construct" /\ last.err # "empty")
          => (last.err # "thread"
                <=> AreThreadsCompatible(last.arg.fastener.thread_spec,
                                         last.arg.threaded_member.thread_spec))
    /\ last.op = "set_fastener"
          => (last.err # "thread"
                <=> AreThreadsCompatible(last.arg.thread_spec,
                                         threaded_member.thread_spec))
    /\ last.op = "set_threaded_member"
          => (last.err # "thread"
                <=> AreThreadsCompatible(fastener.thread_spec,
                                         last.arg.thread_spec))

\* the component of a 6-DOF vector along the axis, and the squared norm of
\* the two components perpendicular to it
AlongAxis(v, axis) ==
    CASE axis = "x" -> v[1] [] axis = "y" -> v[2] [] OTHER -> v[3]

PerpendicularSquared(v, axis) ==
    CASE axis = "x" -> v[2] * v[2] + v[3] * v[3]
      [] axis = "y" -> v[1] * v[1] + v[3] * v[3]
      [] OTHER -> v[1] * v[1] + v[2] * v[2]

\* C22: set_force_from_6dof returns an Environment whose tension is the
\* input force component along the fastener axis (in the unit of the input)
\* and whose shear and bending are the Euclidean norms of the two
\* perpendicular force and moment components; a list not of length 3 or an
\* axis outside {x, y, z} raises ValueError.
C22_SixDofDecomposition ==
    (environment.err # "none" /\ environment.how = "6dof")
       => LET c == environment.call
          IN  IF Len(c.forces) # 3 \/ Len(c.moments) # 3
                 \/ c.fastener_axis \notin {"x", "y", "z"}
              THEN environment.err = "ValueError"
              ELSE /\ environment.err = "ok"
                   /\ environment.object.tension
                         = R(AlongAxis(c.forces, c.fastener_axis), 1)
                   /\ RatMul(environment.object.shear, environment.object.shear)
                         = R(PerpendicularSquared(c.forces, c.fastener_axis), 1)
                   /\ RatMul(environment.object.bending, environment.object.bending)
                         = R(PerpendicularSquared(c.moments, c.fastener_axis), 1)

\* the float is a number greater than zero
IsPositive(x) == x.kind = "finite" /\ Sgn(x.v) > 0

\* C21: after every yield_strength or ultimate_strength assignment, accepted
\* or rejected, the stored strengths are positive and, when both are set,
\* the yield strength is strictly less than the ultimate strength; a
\* rejected assignment leaves the stored values unchanged.
C21_YieldBelowUltimate ==
    [][(mat' # mat)
          => /\ (mat'.yield_strength.kind # "None"
                   /\ mat'.ultimate_strength.kind # "None")
                  => /\ IsPositive(mat'.yield_strength)
                     /\ IsPositive(mat'.ultimate_strength)
                     /\ RatLt(mat'.yield_strength.v, mat'.ultimate_strength.v)
             /\ mat'.err # "ok"
                  => /\ mat'.yield_strength = mat.yield_strength
                     /\ mat'.ultimate_strength = mat.ultimate_strength]_vars

====
